---- MODULE Spec2Model ----
(***************************************************************************)
(* A model of the Ninox schema extractor (src/ninox_api_extractor.py):     *)
(* the tokenizer of the embedded scripting language, the regular-          *)
(* expression scans for references, the queries of the store, and the      *)
(* extraction run that fills the SQLite store and its full-text mirror.    *)
(*                                                                         *)
(* Text is a sequence of one-character strings; positions are 0-based as   *)
(* in the Python source (At, Slice).                                       *)
(***************************************************************************)
EXTENDS Integers, Sequences, FiniteSets, TLC

VARIABLES
    code,       \* tokenizer / scanner input: the script text
    pos,        \* tokenize: scan position
    tokens,     \* tokenize: tokens emitted so far
    given,      \* what the input was put together from (the expected answer)
    out,        \* result of the operation a specification applies
    phase,      \* "input" before the operation was applied, "done" after it
    file,       \* the store file: "absent", "ok", "corrupt" or "garbage"
    disk,       \* the committed content of the store file
    conn,       \* self.conn: "none" or "open"
    work,       \* the content the connection sees (its open transaction included)
    pc,         \* where extract_all stands
    run         \* the run of extract_all: its arguments, its loop, what it did

textVars == <<code, pos, tokens, given, out, phase>>
storeVars == <<file, disk, conn, work, pc, run>>
vars == <<textVars, storeVars>>

(***************************************************************************)
(* Text helpers                                                            *)
(***************************************************************************)

\* code[i] of the source (0-based)
At(s, i) == s[i + 1]

Min(a, b) == IF a < b THEN a ELSE b
Max(a, b) == IF a > b THEN a ELSE b

\* s[a:b] of the source: both ends are clamped to the text
Slice(s, a, b) == SubSeq(s, Max(a, 0) + 1, Min(b, Len(s)))

RECURSIVE Str(_)
\* the Python str a sequence of characters stands for
Str(s) == IF s = <<>> THEN "" ELSE s[1] \o Str(Tail(s))

RECURSIVE Flatten(_)
\* ''.join(parts)
Flatten(parts) == IF parts = <<>> THEN <<>> ELSE parts[1] \o Flatten(Tail(parts))

\* s.startswith(sub, i), i.e. s[i:i+len(sub)] == sub
StartsWithAt(s, sub, i) == Slice(s, i, i + Len(sub)) = sub

\* s.find(sub, from): the lowest index >= from where sub occurs, or -1
Find(s, sub, from) ==
    LET hits == {i \in from..Len(s) : StartsWithAt(s, sub, i)}
    IN  IF hits = {} THEN -1 ELSE CHOOSE i \in hits : \A j \in hits : i <= j

UpperSeq == <<"A","B","C","D","E","F","G","H","I","J","K","L","M",
              "N","O","P","Q","R","S","T","U","V","W","X","Y","Z">>
LowerSeq == <<"a","b","c","d","e","f","g","h","i","j","k","l","m",
              "n","o","p","q","r","s","t","u","v","w","x","y","z">>

AsciiUpper == {UpperSeq[i] : i \in DOMAIN UpperSeq}
AsciiLower == {LowerSeq[i] : i \in DOMAIN LowerSeq}
AsciiDigit == {"0","1","2","3","4","5","6","7","8","9"}

\* str.isdigit / str.isalpha / str.isalnum on one character
IsDigit(c) == c \in AsciiDigit
IsAlpha(c) == c \in AsciiUpper \cup AsciiLower
IsAlnum(c) == IsAlpha(c) \/ IsDigit(c)

\* str.lower() on one character and on a text
LowerChar(c) ==
    IF c \in AsciiUpper
    THEN LowerSeq[CHOOSE i \in DOMAIN UpperSeq : UpperSeq[i] = c]
    ELSE c
LowerText(s) == [i \in DOMAIN s |-> LowerChar(s[i])]

(***************************************************************************)
(* The tokenizer                                                           *)
(***************************************************************************)

KEYWORDS == {
    "if", "then", "else", "end", "switch", "case", "default",
    "for", "do", "while", "break", "continue",
    "try", "catch", "throw",
    "let", "var", "function",
    "and", "or", "not", "in", "like",
    "true", "false", "null", "this", "me",
    "as", "database", "server", "transaction", "user",
    "select", "from", "where", "order", "by", "group", "limit",
    "asc", "desc", "distinct" }

BUILTIN_FUNCTIONS == {
    "create", "delete", "duplicate", "record", "records",
    "first", "last", "item", "count", "sum", "avg", "min", "max",
    "text", "number", "upper", "lower", "trim", "length",
    "substr", "replace", "split", "join", "contains",
    "format", "formatNumber", "parseNumber",
    "today", "now", "date", "time", "datetime",
    "year", "month", "day", "hour", "minute", "second",
    "weekday", "week", "quarter",
    "dateAdd", "dateDiff", "dateFormat",
    "startOfDay", "endOfDay", "startOfWeek", "endOfWeek",
    "startOfMonth", "endOfMonth", "startOfYear", "endOfYear",
    "abs", "ceil", "floor", "round", "sqrt", "pow",
    "sin", "cos", "tan", "asin", "acos", "atan",
    "log", "exp", "random",
    "array", "unique", "sort", "reverse", "slice",
    "concat", "indexOf", "includes", "filter", "map",
    "alert", "confirm", "prompt", "dialog",
    "popupRecord", "openRecord", "closePopup",
    "openPrintLayout", "printRecord",
    "importFile", "exportFile", "downloadFile",
    "importCSV", "importJSON", "exportCSV", "exportJSON",
    "http", "httpGet", "httpPost", "httpPut", "httpDelete",
    "sendEmail", "email",
    "debug", "print", "sleep", "eval",
    "typeof", "isnull", "isempty", "isEmpty",
    "coalesce", "choose", "switch",
    "setStyle", "getStyle", "focus", "blur",
    "navigate", "openUrl", "openTable", "openView",
    "userId", "userName", "userEmail", "userRoles",
    "hasRole", "isAdmin",
    "databaseId", "databaseName", "tableId", "tableName",
    "fieldId", "fieldName",
    "archive", "unarchive", "isArchived",
    "copyToClipboard", "readFromClipboard",
    "parseJSON", "formatJSON", "json",
    "rgb", "rgba", "hex", "color",
    "location", "geoDistance" }

\* Token(type, value, start, end), the value being code[start:end]
Token(type, s, start, end) ==
    [type |-> type, value |-> Slice(s, start, end), start |-> start, end |-> end]

RECURSIVE BlankEnd(_, _)
\* while end < len(code) and code[end] in ' \t\r': end += 1
BlankEnd(s, end) ==
    IF end < Len(s) /\ At(s, end) \in {" ", "\t", "\r"} THEN BlankEnd(s, end + 1) ELSE end

\* a comment from // to the end of the line
LineCommentEnd(s, p) ==
    LET e == Find(s, <<"\n">>, p) IN IF e = -1 THEN Len(s) ELSE e

\* a comment from --- to the next --- (or to the end of the text)
BlockCommentEnd(s, p) ==
    LET e == Find(s, <<"-", "-", "-">>, p + 3) IN IF e = -1 THEN Len(s) ELSE e + 3

RECURSIVE StringEnd(_, _, _)
\* the scan of a string literal opened by the quote q, from end = pos + 1
StringEnd(s, end, q) ==
    IF end >= Len(s) THEN end
    ELSE IF At(s, end) = "\\" /\ end + 1 < Len(s) THEN StringEnd(s, end + 2, q)
    ELSE IF At(s, end) = q THEN end + 1
    ELSE StringEnd(s, end + 1, q)

RECURSIVE NumberEnd(_, _, _)
\* the scan of a number from end = pos
NumberEnd(s, end, has_dot) ==
    IF end >= Len(s) THEN end
    ELSE IF IsDigit(At(s, end)) THEN NumberEnd(s, end + 1, has_dot)
    ELSE IF At(s, end) = "." /\ ~has_dot THEN NumberEnd(s, end + 1, TRUE)
    ELSE IF /\ At(s, end) \in {"e", "E"}
            /\ end + 1 < Len(s)
            /\ (IsDigit(At(s, end + 1)) \/ At(s, end + 1) \in {"+", "-"})
         THEN IF end + 1 < Len(s) /\ At(s, end + 1) \in {"+", "-"}
              THEN NumberEnd(s, end + 2, has_dot)
              ELSE NumberEnd(s, end + 1, has_dot)
    ELSE end

RECURSIVE WordEnd(_, _)
\* while end < len(code) and (code[end].isalnum() or code[end] == '_')
WordEnd(s, end) ==
    IF end < Len(s) /\ (IsAlnum(At(s, end)) \/ At(s, end) = "_")
    THEN WordEnd(s, end + 1) ELSE end

RECURSIVE Lookahead(_, _)
\* while lookahead < len(code) and code[lookahead] in ' \t'
Lookahead(s, i) ==
    IF i < Len(s) /\ At(s, i) \in {" ", "\t"} THEN Lookahead(s, i + 1) ELSE i

\* the character the lookahead stops at is c
FollowedBy(s, end, c) ==
    LET l == Lookahead(s, end) IN l < Len(s) /\ At(s, l) = c

\* re.match(r'^[A-Z][A-Z0-9]{0,3}$', word)
IsShortId(word) ==
    /\ Len(word) \in 1..4
    /\ word[1] \in AsciiUpper
    /\ \A i \in 2..Len(word) : word[i] \in AsciiUpper \cup AsciiDigit

\* the branch 'Identifier or keyword': the type of the word code[pos:end]
WordType(s, p, end) ==
    LET word       == Slice(s, p, end)
        word_lower == Str(LowerText(word))
    IN  IF word_lower \in KEYWORDS THEN "keyword"
        ELSE IF word_lower \in BUILTIN_FUNCTIONS
             THEN IF FollowedBy(s, end, "(") THEN "builtin" ELSE "identifier"
        ELSE IF IsShortId(word)
             THEN IF FollowedBy(s, end, ".") THEN "table" ELSE "field"
        ELSE "identifier"

\* mutant: the last branch advances without keeping the character
UnknownToken_Dropped(s, p) ==
    [type |-> "identifier", value |-> <<>>, start |-> p, end |-> p + 1]

\* mutant: the last branch files the character under the operators
UnknownToken_AsOperator(s, p) == Token("operator", s, p, p + 1)

\* the last branch: a character no rule matches is an identifier of its own
UnknownToken(s, p) == Token("identifier", s, p, p + 1)

\* one iteration of the while loop of tokenize: the token that starts at p
NextToken(s, p) ==
    LET c == At(s, p) IN
    IF c = "\n" THEN Token("newline", s, p, p + 1)
    ELSE IF c \in {" ", "\t", "\r"} THEN Token("whitespace", s, p, BlankEnd(s, p))
    ELSE IF Slice(s, p, p + 2) = <<"/", "/">> THEN Token("comment", s, p, LineCommentEnd(s, p))
    ELSE IF Slice(s, p, p + 3) = <<"-", "-", "-">> THEN Token("comment", s, p, BlockCommentEnd(s, p))
    ELSE IF c = "\"" THEN Token("string", s, p, StringEnd(s, p + 1, "\""))
    ELSE IF c = "'" THEN Token("string", s, p, StringEnd(s, p + 1, "'"))
    ELSE IF IsDigit(c) \/ (c = "." /\ p + 1 < Len(s) /\ IsDigit(At(s, p + 1)))
         THEN Token("number", s, p, NumberEnd(s, p, FALSE))
    ELSE IF Slice(s, p, p + 2) = <<":", "=">> THEN Token("operator", s, p, p + 2)
    ELSE IF Slice(s, p, p + 2) \in {<<"<", "=">>, <<">", "=">>, <<"!", "=">>, <<"<", ">">>}
         THEN Token("operator", s, p, p + 2)
    ELSE IF c \in {"+", "-", "*", "/", "%", "=", "<", ">"} THEN Token("operator", s, p, p + 1)
    ELSE IF c \in {"(", ")", "[", "]", "{", "}", ",", ".", ";", ":"}
         THEN Token("punctuation", s, p, p + 1)
    ELSE IF IsAlpha(c) \/ c = "_"
         THEN LET end == WordEnd(s, p) IN Token(WordType(s, p, end), s, p, end)
    ELSE UnknownToken(s, p)

RECURSIVE TokenizeFrom(_, _)
TokenizeFrom(s, p) ==
    IF p >= Len(s) THEN <<>>
    ELSE LET t == NextToken(s, p) IN <<t>> \o TokenizeFrom(s, t.end)

\* tokenize(code)
tokenize(s) == TokenizeFrom(s, 0)

(***************************************************************************)
(* _extract_database_references: three regular-expression scans            *)
(***************************************************************************)

\* \s of the re module on the characters of the model
IsSpace(c) == c \in {" ", "\t", "\n", "\r"}

\* a quote character of the class ['\"]
IsQuote(c) == c \in {"'", "\""}

\* \w of the re module
IsWordChar(c) == IsAlnum(c) \/ c = "_"

\* the literal lit (written in lower case) matches at i under re.IGNORECASE
LitAt(s, lit, i) == i + Len(lit) <= Len(s) /\ LowerText(Slice(s, i, i + Len(lit))) = lit

RECURSIVE SpaceEnd(_, _)
\* the end of the longest run of \s from i
SpaceEnd(s, i) == IF i < Len(s) /\ IsSpace(At(s, i)) THEN SpaceEnd(s, i + 1) ELSE i

RECURSIVE NameEnd(_, _)
\* the end of the longest run of [^'\"] from i
NameEnd(s, i) == IF i < Len(s) /\ ~IsQuote(At(s, i)) THEN NameEnd(s, i + 1) ELSE i

NoMatch == [ok |-> FALSE, start |-> 0, end |-> 0, group |-> <<>>]

\* ['\"]([^'\"]+)['\"] at i: an opening quote, one or more characters that are
\* no quote, and a quote of either kind
QuotedAt(s, start, i) ==
    IF i < Len(s) /\ IsQuote(At(s, i))
    THEN LET e == NameEnd(s, i + 1)
         IN  IF e > i + 1 /\ e < Len(s)
             THEN [ok |-> TRUE, start |-> start, end |-> e + 1, group |-> Slice(s, i + 1, e)]
             ELSE NoMatch
    ELSE NoMatch

\* do\s+as\s+ at i: the position after it, or -1
DoAsAt(s, i) ==
    IF ~LitAt(s, <<"d", "o">>, i) THEN -1
    ELSE LET a == SpaceEnd(s, i + 2)
         IN  IF a = i + 2 \/ ~LitAt(s, <<"a", "s">>, a) THEN -1
             ELSE LET b == SpaceEnd(s, a + 2) IN IF b = a + 2 THEN -1 ELSE b

\* db_pattern = do\s+as\s+database\s+['\"]([^'\"]+)['\"]
DbPatternAt(s, i) ==
    LET b == DoAsAt(s, i) IN
    IF b = -1 \/ ~LitAt(s, <<"d", "a", "t", "a", "b", "a", "s", "e">>, b) THEN NoMatch
    ELSE LET c == SpaceEnd(s, b + 8)
         IN  IF c = b + 8 THEN NoMatch ELSE QuotedAt(s, i, c)

\* server_pattern = do\s+as\s+server\b
ServerPatternAt(s, i) ==
    LET b == DoAsAt(s, i) IN
    IF b = -1 \/ ~LitAt(s, <<"s", "e", "r", "v", "e", "r">>, b) THEN NoMatch
    ELSE IF b + 6 < Len(s) /\ IsWordChar(At(s, b + 6)) THEN NoMatch
    ELSE [ok |-> TRUE, start |-> i, end |-> b + 6, group |-> <<>>]

\* open_pattern = openDatabase\s*\(\s*['\"]([^'\"]+)['\"]
OpenPatternAt(s, i) ==
    IF ~LitAt(s, <<"o", "p", "e", "n", "d", "a", "t", "a", "b", "a", "s", "e">>, i) THEN NoMatch
    ELSE LET a == SpaceEnd(s, i + 12)
         IN  IF ~(a < Len(s) /\ At(s, a) = "(") THEN NoMatch
             ELSE QuotedAt(s, i, SpaceEnd(s, a + 1))

PatternAt(pat, s, i) ==
    CASE pat = "do as database" -> DbPatternAt(s, i)
      [] pat = "do as server"   -> ServerPatternAt(s, i)
      [] pat = "openDatabase"   -> OpenPatternAt(s, i)

RECURSIVE FindIter(_, _, _)
\* re.finditer(pattern, code, re.IGNORECASE): the matches from left to right,
\* each search starting where the last match ended
FindIter(pat, s, from) ==
    IF from >= Len(s) THEN <<>>
    ELSE LET mt == PatternAt(pat, s, from)
         IN  IF mt.ok THEN <<mt>> \o FindIter(pat, s, mt.end)
             ELSE FindIter(pat, s, from + 1)

RECURSIVE LStrip(_)
LStrip(s) == IF s # <<>> /\ IsSpace(s[1]) THEN LStrip(Tail(s)) ELSE s
RECURSIVE RStrip(_)
RStrip(s) == IF s # <<>> /\ IsSpace(s[Len(s)]) THEN RStrip(SubSeq(s, 1, Len(s) - 1)) ELSE s

\* code[start:end].replace('\n', ' ').strip()
Snippet(s, start, end) ==
    LET part == Slice(s, start, end)
    IN  RStrip(LStrip([i \in DOMAIN part |-> IF part[i] = "\n" THEN " " ELSE part[i]]))

\* the characters of context kept before a match, and after it
SnippetBefore == 20
SnippetAfter == 50
SnippetAfterOpen == 30

\* the record one match of a pattern gives
Reference(pat, s, mt) ==
    [target_database |-> IF pat = "do as server" THEN <<"(", "s", "e", "r", "v", "e", "r", ")">>
                         ELSE mt.group,
     reference_type  |-> pat,
     snippet         |-> Snippet(s, Max(0, mt.start - SnippetBefore),
                                 Min(Len(s), mt.end + (IF pat = "openDatabase"
                                                         THEN SnippetAfterOpen
                                                         ELSE SnippetAfter)))]

References(pat, s) ==
    LET ms == FindIter(pat, s, 0) IN [i \in DOMAIN ms |-> Reference(pat, s, ms[i])]

\* _extract_database_references(code)
_extract_database_references(s) ==
    References("do as database", s) \o References("do as server", s)
        \o References("openDatabase", s)

(***************************************************************************)
(* _extract_formula_references: TABLE_REFERENCE_PATTERNS                   *)
(***************************************************************************)

\* [A-Za-z_] and [A-Za-z0-9_äöüÄÖÜß]
IsIdentStart(c) == IsAlpha(c) \/ c = "_"
IsIdentChar(c) == IsAlnum(c) \/ c \in {"_", "ä", "ö", "ü", "Ä", "Ö", "Ü", "ß"}

RECURSIVE IdentEnd(_, _)
\* the end of the longest run of identifier characters from i
IdentEnd(s, i) == IF i < Len(s) /\ IsIdentChar(At(s, i)) THEN IdentEnd(s, i + 1) ELSE i

\* ([A-Za-z_][A-Za-z0-9_äöüÄÖÜß]*) at i
IdentAt(s, start, i) ==
    IF i < Len(s) /\ IsIdentStart(At(s, i))
    THEN LET e == IdentEnd(s, i + 1)
         IN  [ok |-> TRUE, start |-> start, end |-> e, group |-> Slice(s, i, e)]
    ELSE NoMatch

RECURSIVE NotCharEnd(_, _, _)
\* the end of the longest run of [^q] from i
NotCharEnd(s, i, q) == IF i < Len(s) /\ At(s, i) # q THEN NotCharEnd(s, i + 1, q) ELSE i

\* q([^q]+)q at i
QuotedByAt(s, start, i, q) ==
    IF i < Len(s) /\ At(s, i) = q
    THEN LET e == NotCharEnd(s, i + 1, q)
         IN  IF e > i + 1 /\ e < Len(s)
             THEN [ok |-> TRUE, start |-> start, end |-> e + 1, group |-> Slice(s, i + 1, e)]
             ELSE NoMatch
    ELSE NoMatch

\* the argument of a pattern: an identifier, or a name in the quote arg
ArgAt(s, start, i, arg) ==
    IF arg = "ident" THEN IdentAt(s, start, i) ELSE QuotedByAt(s, start, i, arg)

\* select\s+<arg>
SelectAt(s, i, arg) ==
    IF ~LitAt(s, <<"s", "e", "l", "e", "c", "t">>, i) THEN NoMatch
    ELSE LET a == SpaceEnd(s, i + 6)
         IN  IF a = i + 6 THEN NoMatch ELSE ArgAt(s, i, a, arg)

\* <name>\s*\(\s*<arg>
CallAt(s, i, name, arg) ==
    IF ~LitAt(s, name, i) THEN NoMatch
    ELSE LET a == SpaceEnd(s, i + Len(name))
         IN  IF ~(a < Len(s) /\ At(s, a) = "(") THEN NoMatch
             ELSE ArgAt(s, i, SpaceEnd(s, a + 1), arg)

AggregateNames == {<<"s", "u", "m">>, <<"m", "a", "x">>, <<"m", "i", "n">>,
                   <<"a", "v", "g">>, <<"c", "n", "t">>}

\* (?:sum|max|min|avg|cnt)\s*\(\s*(ident)\.(ident): group(1) is the first identifier
AggregateAt(s, i) ==
    IF \E n \in AggregateNames : LitAt(s, n, i)
    THEN LET mt == CallAt(s, i, Slice(LowerText(s), i, i + 3), "ident")
         IN  IF /\ mt.ok
                /\ mt.end + 1 < Len(s)
                /\ At(s, mt.end) = "."
                /\ IsIdentStart(At(s, mt.end + 1))
             THEN [mt EXCEPT !.end = IdentEnd(s, mt.end + 2)]
             ELSE NoMatch
    ELSE NoMatch

\* TABLE_REFERENCE_PATTERNS, in order
TABLE_REFERENCE_PATTERNS == <<"select ident", "select '", "select \"", "first ident",
                              "first '", "last ident", "count ident", "aggregate">>

TablePatternAt(pat, s, i) ==
    CASE pat = "select ident" -> SelectAt(s, i, "ident")
      [] pat = "select '"     -> SelectAt(s, i, "'")
      [] pat = "select \""    -> SelectAt(s, i, "\"")
      [] pat = "first ident"  -> CallAt(s, i, <<"f", "i", "r", "s", "t">>, "ident")
      [] pat = "first '"      -> CallAt(s, i, <<"f", "i", "r", "s", "t">>, "'")
      [] pat = "last ident"   -> CallAt(s, i, <<"l", "a", "s", "t">>, "ident")
      [] pat = "count ident"  -> CallAt(s, i, <<"c", "o", "u", "n", "t">>, "ident")
      [] pat = "aggregate"    -> AggregateAt(s, i)

RECURSIVE TableFindIter(_, _, _)
\* re.finditer(pattern, code, re.IGNORECASE) for a pattern of the list
TableFindIter(pat, s, from) ==
    IF from >= Len(s) THEN <<>>
    ELSE LET mt == TablePatternAt(pat, s, from)
         IN  IF mt.ok THEN <<mt>> \o TableFindIter(pat, s, mt.end)
             ELSE TableFindIter(pat, s, from + 1)

\* the stop words of the plausibility test
StopWords == {"this", "true", "false", "null", "void", "let", "var", "end", "for",
              "if", "do", "then", "else"}

\* a captured name is kept: a known table, or longer than 2 and no stop word
AcceptedName(name, known_tables) ==
    \/ Str(name) \in known_tables
    \/ (Len(name) > 2 /\ Str(LowerText(name)) \notin StopWords)

\* the names the patterns capture (group 1 of every match of every pattern)
CapturedNames(s) ==
    UNION {LET ms == TableFindIter(TABLE_REFERENCE_PATTERNS[k], s, 0)
           IN  {ms[i].group : i \in DOMAIN ms} : k \in DOMAIN TABLE_REFERENCE_PATTERNS}

\* _extract_formula_references(code, known_tables): a set of table names
_extract_formula_references(s, known_tables) ==
    {Str(n) : n \in {m \in CapturedNames(s) : AcceptedName(m, known_tables)}}

(***************************************************************************)
(* The schema a database answers with, and _extract_database               *)
(*                                                                         *)
(* A schema is [codes, types]: codes maps attribute names of the database  *)
(* level to values, types is the sequence of the table definitions in the  *)
(* order of the answer, each [type_id, caption, uuid, codes, fields], and  *)
(* fields the sequence of [field_id, caption, base, refTypeId,             *)
(* refTypeUUID, dbId, dbName, composition, codes].  A value of a code      *)
(* attribute is [isstr, text]; composition is the flag, FALSE when absent. *)
(***************************************************************************)

\* a key the answer does not hold / a key it holds with the value null
Missing == "<missing>"
None == "<None>"

\* the code attributes of each level with their category, in dict order
DATABASE_CODE_FIELDS == <<
    <<"afterOpen", "trigger">>, <<"beforeOpen", "trigger">>, <<"globalCode", "global">> >>

TABLE_CODE_FIELDS == <<
    <<"afterCreate", "trigger">>, <<"afterUpdate", "trigger">>,
    <<"afterDelete", "trigger">>, <<"beforeDelete", "trigger">>,
    <<"canRead", "permission">>, <<"canWrite", "permission">>,
    <<"canCreate", "permission">>, <<"canDelete", "permission">>,
    <<"printout", "other">> >>

FIELD_CODE_FIELDS == <<
    <<"fn", "formula">>, <<"afterUpdate", "trigger">>, <<"afterCreate", "trigger">>,
    <<"constraint", "validation">>, <<"dchoiceValues", "dchoice">>,
    <<"dchoiceCaption", "dchoice">>, <<"dchoiceColor", "dchoice">>,
    <<"dchoiceIcon", "dchoice">>, <<"referenceFormat", "reference">>,
    <<"visibility", "visibility">>, <<"onClick", "button">>,
    <<"onDoubleClick", "button">>, <<"canRead", "permission">>,
    <<"canWrite", "permission">>, <<"validation", "validation">>,
    <<"color", "other">> >>

\* d.get(key, default) for a value that is Missing when the key is absent
Get(v, default) == IF v = Missing THEN default ELSE v

\* a value Python takes as true: neither absent, nor null, nor ''
Truthy(v) == v \notin {Missing, None, ""}

\* code.strip() is not empty
HasText(text) == \E i \in DOMAIN text : ~IsSpace(text[i])

\* mutant: the test without code.strip()
IsCode_Unstripped(v) == v.isstr /\ v.text # <<>>

\* `code and isinstance(code, str) and code.strip()`
IsCode(v) == v.isstr /\ v.text # <<>> /\ HasText(v.text)

\* len(code.split('\n'))
LineCount(text) == Cardinality({i \in DOMAIN text : text[i] = "\n"}) + 1

\* the shortest field formula that is kept
MinFormulaLen == 3

\* the length of the code kept with a formula reference
SnippetLen == 500

\* CodeLocation via make_code_location
CodeLocation(db_id, table_id, table_name, element_id, element_name, code_type, category, text) ==
    [database_id |-> db_id, table_id |-> table_id, table_name |-> table_name,
     element_id |-> element_id, element_name |-> element_name, code_type |-> code_type,
     code_category |-> category, code |-> text, line_count |-> LineCount(text)]

RECURSIVE LevelScripts(_, _, _, _, _, _, _, _)
\* the loop over the code attributes of one level, from the k-th attribute on
LevelScripts(attrs, k, codes, db_id, table_id, table_name, element_id, element_name) ==
    IF k > Len(attrs) THEN <<>>
    ELSE LET code_type == attrs[k][1]
             v         == IF code_type \in DOMAIN codes THEN codes[code_type]
                          ELSE [isstr |-> TRUE, text |-> <<>>]
             skip      == /\ element_id # None
                          /\ code_type = "fn"
                          /\ Len(v.text) < MinFormulaLen
             here      == IF IsCode(v) /\ ~skip
                          THEN <<CodeLocation(db_id, table_id, table_name, element_id,
                                              element_name, code_type, attrs[k][2], v.text)>>
                          ELSE <<>>
         IN  here \o LevelScripts(attrs, k + 1, codes, db_id, table_id, table_name,
                                  element_id, element_name)

\* mutant: the map holds only the tables up to the first one (a single pass)
TableIdToName_FirstOnly(types) ==
    [id \in {types[i].type_id : i \in DOMAIN types \cap {1}} |-> Get(types[1].caption, id)]

\* pass 1: table_id_to_name and table_uuid_to_name (a later entry replaces an earlier)
TableIdToName(types) ==
    [id \in {types[i].type_id : i \in DOMAIN types} |->
        LET i == CHOOSE i \in DOMAIN types : types[i].type_id = id
        IN  Get(types[i].caption, id)]
TableUuidToName(types) ==
    [u \in {types[i].uuid : i \in DOMAIN types} \ {Missing} |->
        LET last == CHOOSE i \in DOMAIN types :
                        /\ types[i].uuid = u
                        /\ \A j \in DOMAIN types : types[j].uuid = u => j <= i
        IN  Get(types[last].caption, types[last].type_id)]

\* 'Ziel-Tabelle ermitteln': the name of the table a field refers to
RefTableName(f, id_map, uuid_map) ==
    IF Truthy(f.refTypeId)
    THEN IF f.refTypeId \in DOMAIN id_map THEN id_map[f.refTypeId] ELSE f.refTypeId
    ELSE IF Truthy(f.refTypeUUID)
    THEN IF f.refTypeUUID \in DOMAIN uuid_map THEN uuid_map[f.refTypeUUID] ELSE f.refTypeUUID
    ELSE None

\* Relationship(...) with the defaults of the dataclass
Relationship(db_id, src_id, src_name, fld_id, fld_name, tgt_id, tgt_name, tgt_db, tgt_db_name, type, comp, in_type, in_code) ==
    [database_id |-> db_id, source_table_id |-> src_id, source_table_name |-> src_name,
     source_field_id |-> fld_id, source_field_name |-> fld_name,
     target_table_id |-> tgt_id, target_table_name |-> tgt_name,
     target_database_id |-> tgt_db, target_database_name |-> tgt_db_name,
     relationship_type |-> type, is_composition |-> comp,
     found_in_code_type |-> in_type, found_in_code |-> in_code]

\* mutant: every relationship of a field is filed as N:1
FieldRelationships_AlwaysN1(db_id, t, table_name, f, ref_table_name) ==
    IF f.base = "ref" /\ Truthy(ref_table_name)
    THEN {Relationship(db_id, t.type_id, table_name, f.field_id, Get(f.caption, f.field_id),
                       IF Truthy(f.refTypeId) THEN f.refTypeId ELSE "", ref_table_name,
                       Get(f.dbId, None), Get(f.dbName, None),
                       "N:1", f.composition, None, <<>>)}
    ELSE {}

\* 'Verknuepfung erstellen': the relationship of a field, if it has one
FieldRelationships(db_id, t, table_name, f, ref_table_name) ==
    IF f.base = "ref" /\ Truthy(ref_table_name)
    THEN {Relationship(db_id, t.type_id, table_name, f.field_id, Get(f.caption, f.field_id),
                       IF Truthy(f.refTypeId) THEN f.refTypeId ELSE "", ref_table_name,
                       Get(f.dbId, None), Get(f.dbName, None),
                       IF Truthy(f.dbId) THEN "CROSS_DB" ELSE "N:1",
                       f.composition, None, <<>>)}
    ELSE {}

\* a or b of Python, for a value that may be None or ''
Or(a, b) == IF Truthy(a) THEN a ELSE b

RECURSIVE WalkFields(_, _, _, _, _, _, _)
\* the loop over the fields of one table, from the k-th field on; acc holds the
\* rows inserted and the relationships and scripts collected so far
WalkFields(db_id, t, table_name, k, acc, id_map, uuid_map) ==
    IF k > Len(t.fields) THEN acc
    ELSE LET f              == t.fields[k]
             field_name     == Get(f.caption, f.field_id)
             ref_table_name == RefTableName(f, id_map, uuid_map)
             row == [database_id |-> db_id, table_id |-> t.type_id, field_id |-> f.field_id,
                     name |-> field_name, base_type |-> Get(f.base, ""),
                     ref_table_id |-> Get(f.refTypeId, None),
                     ref_table_name |-> ref_table_name,
                     ref_database_id |-> Get(f.dbId, None),
                     is_composition |-> f.composition,
                     has_formula |-> ("fn" \in DOMAIN f.codes /\ f.codes["fn"].text # <<>>)]
         IN  IF field_name = None
             THEN [acc EXCEPT !.raised = TRUE]   \* NOT NULL constraint failed: fields.name
             ELSE WalkFields(db_id, t, table_name, k + 1,
                    [acc EXCEPT
                        !.fields  = @ \cup {row},
                        !.rels    = @ \cup FieldRelationships(db_id, t, table_name, f,
                                                              ref_table_name),
                        !.scripts = @ \o LevelScripts(FIELD_CODE_FIELDS, 1, f.codes, db_id,
                                                      t.type_id, table_name, f.field_id,
                                                      field_name)],
                    id_map, uuid_map)

RECURSIVE WalkTypes(_, _, _, _, _, _)
\* pass 2: the loop over the tables, from the k-th table on
WalkTypes(db_id, types, k, acc, id_map, uuid_map) ==
    IF k > Len(types) \/ acc.raised THEN acc
    ELSE LET t          == types[k]
             table_name == Get(t.caption, t.type_id)
             row == [database_id |-> db_id, table_id |-> t.type_id, name |-> table_name,
                     field_count |-> Len(t.fields)]
         IN  IF table_name = None
             THEN [acc EXCEPT !.raised = TRUE]   \* NOT NULL constraint failed: tables.name
             ELSE WalkTypes(db_id, types, k + 1,
                    WalkFields(db_id, t, table_name, 1,
                        [acc EXCEPT
                            !.tables  = @ \cup {row},
                            !.scripts = @ \o LevelScripts(TABLE_CODE_FIELDS, 1, t.codes, db_id,
                                                          t.type_id, table_name, None, None)],
                        id_map, uuid_map),
                    id_map, uuid_map)

\* the relationships the code of one script gives
FormulaRelationships(db_id, script, known_tables) ==
    {Relationship(db_id, Or(script.table_id, ""), Or(script.table_name, "(Database)"),
                  Or(script.element_id, ""), Or(script.element_name, script.code_type),
                  "", ref_table, None, None, "FORMULA_REF", FALSE,
                  script.code_type, Slice(script.code, 0, SnippetLen)) :
        ref_table \in _extract_formula_references(script.code, known_tables)}

RECURSIVE DependencyRows(_, _, _, _)
\* the script_dependencies rows of one script; their ids continue after `last`
DependencyRows(refs, k, script_row, last) ==
    IF k > Len(refs) THEN {}
    ELSE {[id |-> last + k, script_id |-> script_row.id,
           source_database_id |-> script_row.database_id,
           target_database_name |-> Str(refs[k].target_database),
           reference_type |-> refs[k].reference_type]}
         \cup DependencyRows(refs, k + 1, script_row, last)

\* the trigger scripts_ai: the mirror gets an entry with the rowid of the new row
TriggerAfterInsert(store, id) == [store EXCEPT !.fts = @ \cup {id}]

\* self.api.team_name
team_name == "T"

\* the scripts row of a CodeLocation, with the id AUTOINCREMENT gives it
ScriptRow(script, id, db_name) ==
    [id |-> id, team_name |-> team_name,
     database_id |-> script.database_id, database_name |-> db_name,
     table_id |-> script.table_id, table_name |-> script.table_name,
     element_id |-> script.element_id, element_name |-> script.element_name,
     code_type |-> script.code_type, code_category |-> script.code_category,
     code |-> script.code, line_count |-> script.line_count]

\* INSERT INTO scripts, the trigger it fires, and INSERT INTO script_dependencies
\* for the references db_refs of the script
StoreScript(store, row, db_refs) ==
    [TriggerAfterInsert([store EXCEPT !.scripts = @ \cup {row}, !.seq_scripts = row.id],
                        row.id)
        EXCEPT !.deps = @ \cup DependencyRows(db_refs, 1, row, store.seq_deps),
               !.seq_deps = @ + Len(db_refs)]

RECURSIVE StoreScripts(_, _, _, _, _, _, _)
\* 'Scripts speichern und Formel-Referenzen extrahieren', from the k-th script on
StoreScripts(db_id, db_name, scripts, k, store, rels, known_tables) ==
    IF k > Len(scripts) THEN [store |-> store, rels |-> rels]
    ELSE StoreScripts(db_id, db_name, scripts, k + 1,
            StoreScript(store, ScriptRow(scripts[k], store.seq_scripts + 1, db_name),
                        _extract_database_references(scripts[k].code)),
            rels \cup FormulaRelationships(db_id, scripts[k], known_tables),
            known_tables)

\* the set all_relationships holds the records that differ in some attribute:
\* the dataclass compares every attribute, __hash__ only picks the bucket
AllRelationships(structural, formula) == structural \cup formula

NoStats == [tables |-> 0, fields |-> 0, relationships |-> 0, scripts |-> 0]

\* INSERT INTO relationships for each element of the set, the UPDATE of the
\* databases row, and the statistics returned
StoreRelationships(store, db_id, all_rels, table_count, field_count, code_count) ==
    [raised |-> FALSE,
     store  |-> [store EXCEPT
                    !.rels = @ \cup all_rels,
                    !.databases = {IF d.id = db_id
                                   THEN [d EXCEPT !.table_count = table_count,
                                                  !.code_count = code_count]
                                   ELSE d : d \in @}],
     stats  |-> [tables |-> table_count, fields |-> field_count,
                 relationships |-> Cardinality(all_rels), scripts |-> code_count]]

\* what follows the two passes: scripts, dependencies, relationships
AfterWalk(walk, stored, db_id) ==
    StoreRelationships(stored.store, db_id, AllRelationships(walk.rels, stored.rels),
                       Cardinality(walk.tables), Cardinality(walk.fields),
                       Len(walk.scripts))

\* the rows of databases, tables and fields the walk has inserted
Inserted(store, db_id, db_name, walk) ==
    [store EXCEPT !.databases = @ \cup {[id |-> db_id, name |-> db_name,
                                         table_count |-> 0, code_count |-> 0]},
                  !.tables = @ \cup walk.tables,
                  !.fields = @ \cup walk.fields]

\* the walk has raised (the rows it inserted stay in the transaction), or the
\* scripts and relationships are stored
Walked(store, db_id, db_name, settings_name, walk, known_tables) ==
    IF walk.raised
    THEN [raised |-> TRUE, store |-> Inserted(store, db_id, settings_name, walk),
          stats |-> NoStats]
    ELSE AfterWalk(walk,
                   StoreScripts(db_id, db_name, walk.scripts, 1,
                                Inserted(store, db_id, settings_name, walk), {}, known_tables),
                   db_id)

\* the names of table_id_to_name
KnownTables(id_map) == {id_map[t] : t \in DOMAIN id_map}

\* _extract_database(db_id, db_name) on the answer `schema`, in the transaction `store`:
\* [raised, store, stats]
_extract_database(store, db_id, db_name, schema) ==
    IF \E d \in store.databases : d.id = db_id
    THEN [raised |-> TRUE, store |-> store,   \* UNIQUE constraint failed: databases.id
          stats |-> NoStats]
    ELSE Walked(store, db_id, db_name, Get(schema.name, db_name),
                WalkTypes(db_id, schema.types, 1,
                          [raised |-> FALSE, tables |-> {}, fields |-> {}, rels |-> {},
                           scripts |-> LevelScripts(DATABASE_CODE_FIELDS, 1, schema.codes,
                                                    db_id, None, None, None, None)],
                          TableIdToName(schema.types), TableUuidToName(schema.types)),
                KnownTables(TableIdToName(schema.types)))

\* the store init_database creates: every table and the mirror, empty
EmptyStore ==
    [databases |-> {}, tables |-> {}, fields |-> {}, scripts |-> {}, deps |-> {},
     rels |-> {}, fts |-> {}, ghosts |-> {}, seq_scripts |-> 0, seq_deps |-> 0]

(***************************************************************************)
(* The queries: search_scripts, search_scripts_simple,                     *)
(* get_table_dependencies                                                  *)
(***************************************************************************)

\* a run of LongRunLen letters 'a' in a query, written as one element
LongRun == "a..."
LongRunLen == 50000

\* the longest pattern LIKE takes (SQLITE_MAX_LIKE_PATTERN_LENGTH)
MaxLikePattern == 50000

\* the default of the parameter limit
DefaultLimit == 100

\* the number of characters of a text
RECURSIVE CharLen(_)
CharLen(text) ==
    IF text = <<>> THEN 0
    ELSE (IF text[1] = LongRun THEN LongRunLen ELSE 1) + CharLen(Tail(text))

\* a character the full-text engine takes as part of a word (unicode61)
IsTokenChar(c) == IsAlnum(c) \/ c = LongRun

\* a character of a bareword of a full-text query
IsBareword(c) == IsTokenChar(c) \/ c = "_"

RECURSIVE FtsTokensFrom(_, _, _)
\* the words of text[i..], lower-cased; cur is the word begun before i
FtsTokensFrom(text, i, cur) ==
    IF i >= Len(text) THEN (IF cur = <<>> THEN <<>> ELSE <<cur>>)
    ELSE IF IsTokenChar(At(text, i))
    THEN FtsTokensFrom(text, i + 1, Append(cur, LowerChar(At(text, i))))
    ELSE (IF cur = <<>> THEN <<>> ELSE <<cur>>) \o FtsTokensFrom(text, i + 1, <<>>)

\* the words the full-text engine indexes a column value by
FtsTokens(text) == FtsTokensFrom(text, 0, <<>>)

\* the end of the string that opens at i - 1, or -1 when it is unterminated;
\* two quotes in a row stand for one quote inside the string
RECURSIVE Fts5StringEnd(_, _)
Fts5StringEnd(q, i) ==
    IF i >= Len(q) THEN -1
    ELSE IF At(q, i) = "\""
    THEN (IF i + 1 < Len(q) /\ At(q, i + 1) = "\"" THEN Fts5StringEnd(q, i + 2) ELSE i + 1)
    ELSE Fts5StringEnd(q, i + 1)

RECURSIVE BarewordEnd(_, _)
BarewordEnd(q, i) == IF i < Len(q) /\ IsBareword(At(q, i)) THEN BarewordEnd(q, i + 1) ELSE i

RECURSIVE Fts5Phrases(_, _)
\* the phrases of the query q[i..]: [error, phrases], a phrase being its words
Fts5Phrases(q, i) ==
    IF i >= Len(q) THEN [error |-> FALSE, phrases |-> <<>>]
    ELSE IF IsSpace(At(q, i)) THEN Fts5Phrases(q, i + 1)
    ELSE IF At(q, i) = "\""
    THEN LET e == Fts5StringEnd(q, i + 1)
         IN  IF e < 0 THEN [error |-> TRUE, phrases |-> <<>>]   \* unterminated string
             ELSE LET rest == Fts5Phrases(q, e)
                  IN  [rest EXCEPT !.phrases = <<FtsTokens(Slice(q, i + 1, e - 1))>> \o @]
    ELSE IF IsBareword(At(q, i))
    THEN LET e    == BarewordEnd(q, i)
             rest == Fts5Phrases(q, e)
         IN  [rest EXCEPT !.phrases = <<FtsTokens(Slice(q, i, e))>> \o @]
    ELSE [error |-> TRUE, phrases |-> <<>>]                     \* fts5: syntax error

\* the full-text engine on a query of phrases: it rejects the query that has
\* no phrase or a character outside words, strings and blanks
Fts5Parse(q) ==
    LET p == Fts5Phrases(q, 0)
    IN  IF p.error \/ p.phrases = <<>> THEN [error |-> TRUE, phrases |-> <<>>] ELSE p

\* the words of phrase stand in a row in words
ContainsPhrase(words, phrase) ==
    \E k \in 0..(Len(words) - Len(phrase)) :
        \A j \in 1..Len(phrase) : words[k + j] = phrase[j]

\* the names the stores of the queries hold, spelled out
Spellings == {
    <<"O", "r", "d", "e", "r", "s">>,
    <<"K", "u", "n", "d", "e", "n">>,
    <<"C", "u", "s", "t">>,
    <<"B">>,
    <<"D", "1">>,
    <<"T">>,
    <<"f", "n">>,
    <<"o", "n", "C", "l", "i", "c", "k">>,
    <<"v", "i", "s", "i", "b", "i", "l", "i", "t", "y">>,
    <<"g", "l", "o", "b", "a", "l", "C", "o", "d", "e">>,
    <<"a", "f", "t", "e", "r", "C", "r", "e", "a", "t", "e">>,
    <<"t", "o", "o", "l", "t", "i", "p">> }

\* the characters of a column value; a NULL has none
Chars(v) == IF v = None THEN <<>> ELSE CHOOSE t \in Spellings : Str(t) = v

\* the column values of a scripts row the mirror indexes
FtsColumns(row) ==
    {row.code, Chars(row.team_name), Chars(row.database_name), Chars(row.table_name),
     Chars(row.element_name), Chars(row.code_type)}

HasWord(phrase) == phrase # <<>>

\* scripts_fts MATCH ?: every phrase of the query stands in some column of the
\* row; a phrase without a word is left out, and a query of such phrases only
\* finds nothing
FtsMatch(row, phrases) ==
    LET real == SelectSeq(phrases, HasWord)
    IN  /\ real # <<>>
        /\ \A k \in DOMAIN real :
                \E col \in FtsColumns(row) : ContainsPhrase(FtsTokens(col), real[k])

RECURSIVE LikeFrom(_, _, _, _)
\* text[j..] LIKE pattern[i..]: '%' takes any run, '_' one character, letters
\* compare without case
LikeFrom(pattern, i, text, j) ==
    IF i >= Len(pattern) THEN j >= Len(text)
    ELSE IF At(pattern, i) = "%"
    THEN \E k \in j..Len(text) : LikeFrom(pattern, i + 1, text, k)
    ELSE /\ j < Len(text)
         /\ At(pattern, i) = "_" \/ LowerChar(At(pattern, i)) = LowerChar(At(text, j))
         /\ LikeFrom(pattern, i + 1, text, j + 1)

\* value LIKE pattern; a NULL is like nothing
Like(v, pattern) == v # None /\ LikeFrom(pattern, 0, Chars(v), 0)

\* the rows a LIMIT leaves: all of them, or `limit` of them
Limited(rows, limit) ==
    IF Cardinality(rows) <= limit THEN {rows}
    ELSE {part \in SUBSET rows : Cardinality(part) = limit}

\* search_scripts_simple(query, limit): the results it can give, each one
\* [raised, rows]
search_scripts_simple(store, query, limit) ==
    LET pattern == <<"%">> \o query \o <<"%">>
        rows    == {s \in store.scripts :
                        \/ LikeFrom(pattern, 0, s.code, 0)
                        \/ Like(s.table_name, pattern)
                        \/ Like(s.element_name, pattern)}
    IN  IF CharLen(pattern) > MaxLikePattern /\ store.scripts # {}
        THEN {[raised |-> "OperationalError", rows |-> {}]}   \* LIKE or GLOB pattern too complex
        ELSE {[raised |-> "", rows |-> part] : part \in Limited(rows, limit)}

\* `if database_id:` and the like: the filter of a value given and not empty
Passes(filter, v) == ~Truthy(filter) \/ v = filter

\* search_scripts(query, database_id, table_name, code_type, limit)
search_scripts(store, query, database_id, table_name, code_type, limit) ==
    LET parse == Fts5Parse(query)
        rows  == {s \in store.scripts :
                    /\ s.id \in store.fts
                    /\ FtsMatch(s, parse.phrases)
                    /\ Passes(database_id, s.database_id)
                    /\ Passes(table_name, s.table_name)
                    /\ Passes(code_type, s.code_type)}
    IN  IF parse.error                                  \* except sqlite3.OperationalError
        THEN search_scripts_simple(store, query, limit)
        ELSE {[raised |-> "", rows |-> part] : part \in Limited(rows, limit)}

\* get_table_dependencies without the conditions on relationship_type
get_table_dependencies_AnyType(store, table_name) ==
    [references |-> {r \in store.rels : r.source_table_name = table_name},
     referenced_by |-> {r \in store.rels : r.target_table_name = table_name},
     formula_references |->
        {r \in store.rels : r.source_table_name = table_name
                             \/ r.target_table_name = table_name}]

\* get_table_dependencies(table_name)
get_table_dependencies(store, table_name) ==
    [references |->
        {r \in store.rels : r.source_table_name = table_name
                            /\ r.relationship_type # "FORMULA_REF"},
     referenced_by |->
        {r \in store.rels : r.target_table_name = table_name
                            /\ r.relationship_type # "FORMULA_REF"},
     formula_references |->
        {r \in store.rels : (r.source_table_name = table_name
                             \/ r.target_table_name = table_name)
                            /\ r.relationship_type = "FORMULA_REF"}]

(***************************************************************************)
(* SpecTok: tokenize applied to bounded inputs, one loop iteration a step  *)
(***************************************************************************)

\* the specifications of the text functions leave the store alone
NoStoreVars ==
    /\ file = "absent"
    /\ disk = EmptyStore
    /\ conn = "none"
    /\ work = EmptyStore
    /\ pc = "idle"
    /\ run = <<>>

\* the number of fragments an input text is put together from
MaxFrags == 3

TokFrags == {
    <<"\n">>, <<" ">>, <<"/", "/">>, <<"-", "-", "-">>, <<"\"">>, <<"'">>, <<"\\">>,
    <<"1">>, <<".">>, <<"e">>, <<"+">>, <<":", "=">>, <<"<", "=">>, <<"(">>,
    <<"A">>, <<"S", "U", "M">>, <<"i", "f">>, <<"#">>,
    <<"u", "s", "e", "r", "I", "d">>, <<"1", "e", "1">> }

RECURSIVE Texts(_, _)
\* the texts put together from at most n fragments of F
Texts(F, n) ==
    IF n = 0 THEN {<<>>}
    ELSE LET shorter == Texts(F, n - 1)
         IN  shorter \cup {t \o f : t \in shorter, f \in F}

InitTok ==
    /\ code \in Texts(TokFrags, MaxFrags)
    /\ pos = 0
    /\ tokens = <<>>
    /\ given = <<>>
    /\ out = <<>>
    /\ phase = "input"
    /\ NoStoreVars

\* one iteration of `while pos < len(code)`
ScanToken ==
    /\ pos < Len(code)
    /\ LET t == NextToken(code, pos)
       IN  /\ tokens' = Append(tokens, t)
           /\ pos' = t.end
    /\ phase' = (IF pos' >= Len(code) THEN "done" ELSE "input")
    /\ UNCHANGED <<code, given, out, storeVars>>

NextTok == ScanToken

SpecTok == InitTok /\ [][NextTok]_vars

\* the concatenation of the values of the tokens, in order
TokenText(ts) == Flatten([i \in DOMAIN ts |-> ts[i].value])

\* C3: the scan always advances inside the text, what it has emitted is the
\* text read so far, and when it returns the values of the tokens, joined in
\* order, are the input exactly.
C3_TokensReproduceInput ==
    /\ pos \in 0..Len(code)
    /\ TokenText(tokens) = Slice(code, 0, pos)
    /\ \A i \in DOMAIN tokens : tokens[i].end > tokens[i].start
    /\ (pos >= Len(code) => TokenText(tokens) = code)

C3_Witness ==
    /\ pos >= Len(code)
    /\ Len(tokens) >= 2
    /\ \E i \in DOMAIN tokens : tokens[i].type = "string" /\ tokens[i].value = <<"\"", "\\">>
    /\ TokenText(tokens) = code

\* a token made by the branch 'Identifier or keyword'
IsWordToken(t) == t.value # <<>> /\ (IsAlpha(t.value[1]) \/ t.value[1] = "_")

\* C9: every word that is not a reserved word and has the short identity
\* shape is a TABLE when the next character after spaces/tabs is '.', and a
\* FIELD when it is not.
C9_ShortIdIsTableOrField ==
    \A i \in DOMAIN tokens :
        LET t == tokens[i] IN
        (/\ IsWordToken(t)
         /\ Str(LowerText(t.value)) \notin KEYWORDS
         /\ IsShortId(t.value))
        => t.type = (IF FollowedBy(code, t.end, ".") THEN "table" ELSE "field")

(***************************************************************************)
(* SpecRef: _extract_database_references applied to scripts put together   *)
(* from the three constructs                                               *)
(***************************************************************************)

\* the number of constructs in a script
MaxConstructs == 2

RefNames == {<<"S", "a", "l", "e", "s">>, <<"S">>, <<"B", "o", "b", "'", "s">>}
RefKinds == {"do as database", "do as server", "openDatabase"}

\* the text of one construct; the name is a literal in the quote q
ConstructText(kind, q, name) ==
    CASE kind = "do as database" -> <<"d", "o", " ", "a", "s", " ", "d", "a", "t", "a", "b", "a", "s", "e", " ">> \o <<q>> \o name \o <<q>>
      [] kind = "do as server"   -> <<"d", "o", " ", "a", "s", " ", "s", "e", "r", "v", "e", "r">>
      [] kind = "openDatabase"   -> <<"o", "p", "e", "n", "D", "a", "t", "a", "b", "a", "s", "e", "(">> \o <<q>> \o name \o <<q, ")">>

\* the constructs a script may hold: a name is written in a quote it does not contain
Constructs ==
    {[kind |-> k, q |-> q, name |-> n] :
        k \in RefKinds \ {"do as server"}, q \in {"'", "\""}, n \in RefNames}
    \cup {[kind |-> "do as server", q |-> "'", name |-> <<>>]}
WellFormed(c) == \A i \in DOMAIN c.name : c.name[i] # c.q

RECURSIVE ConstructSeqs(_)
ConstructSeqs(n) ==
    IF n = 0 THEN {<<>>}
    ELSE LET shorter == ConstructSeqs(n - 1)
         IN  shorter \cup {Append(cs, c) : cs \in shorter, c \in {x \in Constructs : WellFormed(x)}}

RefHeads == {<<>>, <<"x", " ">>}
RefTails == {<<>>, <<" ", "c", "r", "e", "a", "t", "e", " ", "I", "n", "v", "o", "i", "c", "e", " ", "e", "n", "d">>}
RefSep == <<" ", "e", "n", "d", "\n">>

RECURSIVE ScriptText(_)
ScriptText(cs) ==
    IF cs = <<>> THEN <<>>
    ELSE ConstructText(cs[1].kind, cs[1].q, cs[1].name)
            \o (IF Len(cs) > 1 THEN RefSep ELSE <<>>) \o ScriptText(Tail(cs))

InitRef ==
    /\ given \in ConstructSeqs(MaxConstructs)
    /\ \E h \in RefHeads, t \in RefTails : code = h \o ScriptText(given) \o t
    /\ pos = 0
    /\ tokens = <<>>
    /\ out = <<>>
    /\ phase = "input"
    /\ NoStoreVars

\* db_refs = self._extract_database_references(script.code)
ExtractReferences ==
    /\ phase = "input"
    /\ out' = _extract_database_references(code)
    /\ phase' = "done"
    /\ UNCHANGED <<code, pos, tokens, given, storeVars>>

NextRef == ExtractReferences

SpecRef == InitRef /\ [][NextRef]_vars

\* how often the pair (target, type) occurs among the records / the constructs
CountOut(target, type) ==
    Cardinality({i \in DOMAIN out :
        out[i].target_database = target /\ out[i].reference_type = type})
CountGiven(target, type) ==
    Cardinality({i \in DOMAIN given :
        /\ given[i].kind = type
        /\ target = (IF type = "do as server" THEN <<"(", "s", "e", "r", "v", "e", "r", ")">> ELSE given[i].name)})

\* C8: every occurrence of one of the three constructs yields exactly one
\* record, of its own reference_type and with the name written in it as
\* target_database, and there is no other record; so one
\* `do as database '<name>'` alone yields exactly one record with target <name>.
C8_OneRecordPerConstruct ==
    phase = "done" =>
        /\ Len(out) = Len(given)
        /\ \A i \in DOMAIN given :
             LET tg == IF given[i].kind = "do as server" THEN <<"(", "s", "e", "r", "v", "e", "r", ")">> ELSE given[i].name
             IN  CountOut(tg, given[i].kind) = CountGiven(tg, given[i].kind)

(***************************************************************************)
(* SpecExtract: _extract_database applied to the answers of one database   *)
(***************************************************************************)

\* the number of fields of the table the answers vary
MaxFields == 2

FieldIds == <<"F1", "F2", "F3", "F4">>

NoCodes == [a \in {} |-> [isstr |-> TRUE, text |-> <<>>]]
CodeText(t) == [isstr |-> TRUE, text |-> t]
SelectKunden == <<"s", "e", "l", "e", "c", "t", " ", "K", "u", "n", "d", "e", "n">>
FirstOrders == <<"f", "i", "r", "s", "t", "(", "O", "r", "d", "e", "r", "s", ")">>
DoAsSales == <<"d", "o", " ", "a", "s", " ", "d", "a", "t", "a", "b", "a", "s", "e", " ", "'", "S", "a", "l", "e", "s", "'", " ", "s", "e", "l", "e", "c", "t", " ", "K", "u", "n", "d", "e", "n">>

\* a field with the defaults of an answer that gives only caption and base
PlainField == [caption |-> "Cust", base |-> "string", refTypeId |-> Missing,
               refTypeUUID |-> Missing, dbId |-> Missing, dbName |-> Missing,
               composition |-> FALSE, codes |-> NoCodes]

\* the fields the answers are put together from
FieldShapes == {
    PlainField,
    [PlainField EXCEPT !.base = "ref", !.refTypeId = "B"],
    [PlainField EXCEPT !.base = "ref", !.refTypeId = "B", !.composition = TRUE],
    [PlainField EXCEPT !.base = "ref", !.refTypeUUID = "u-B"],
    [PlainField EXCEPT !.base = "ref", !.refTypeId = "Z"],
    [PlainField EXCEPT !.base = "ref", !.refTypeId = "B", !.dbId = "dx", !.dbName = "DX"],
    [PlainField EXCEPT !.codes = [a \in {"onClick", "visibility"} |-> CodeText(SelectKunden)]],
    [PlainField EXCEPT !.codes = [a \in {"fn"} |-> CodeText(SelectKunden)]],
    [PlainField EXCEPT !.codes = [a \in {"fn"} |-> CodeText(<<"a", "b">>)]],
    [PlainField EXCEPT !.codes = [a \in {"onClick", "tooltip"} |->
                                    IF a = "onClick" THEN [isstr |-> FALSE, text |-> <<>>]
                                    ELSE CodeText(SelectKunden)]],
    [PlainField EXCEPT !.caption = None],
    [PlainField EXCEPT !.base = "ref", !.refTypeId = "A"],
    [PlainField EXCEPT !.codes = [a \in {"onClick"} |-> CodeText(<<" ">>)]] }

RECURSIVE FieldSeqs(_)
\* the sequences of at most n fields; a field gets its id from its place
FieldSeqs(n) ==
    IF n = 0 THEN {<<>>}
    ELSE LET shorter == FieldSeqs(n - 1)
         IN  shorter \cup {Append(fs, f @@ [field_id |-> FieldIds[Len(fs) + 1]]) :
                                fs \in {x \in shorter : Len(x) = n - 1}, f \in FieldShapes}

\* the answer for a database: table A (Orders) with the fields fs, table B
\* before or after it
Answer(dbc, tc, bcap, bfirst, fs) ==
    [name  |-> Missing,
     codes |-> dbc,
     types |-> LET A == [type_id |-> "A", caption |-> "Orders", uuid |-> "u-A",
                         codes |-> tc, fields |-> fs]
                   B == [type_id |-> "B", caption |-> bcap, uuid |-> "u-B",
                         codes |-> NoCodes, fields |-> <<>>]
               IN  IF bfirst THEN <<B, A>> ELSE <<A, B>>]

Schemas ==
    {Answer(dbc, tc, bcap, bfirst, fs) :
        dbc \in {NoCodes, [a \in {"globalCode"} |-> CodeText(FirstOrders)]},
        tc \in {NoCodes, [a \in {"afterCreate"} |-> CodeText(DoAsSales)]},
        bcap \in {"Kunden", Missing, None},
        bfirst \in BOOLEAN,
        fs \in FieldSeqs(MaxFields)}

InitExtract ==
    /\ given \in Schemas
    /\ code = <<>>
    /\ pos = 0
    /\ tokens = <<>>
    /\ out = <<>>
    /\ phase = "input"
    /\ file = "ok"
    /\ disk = EmptyStore
    /\ conn = "open"
    /\ work = EmptyStore
    /\ pc = "loop"
    /\ run = <<>>

\* db_stats = self._extract_database(db_id, db_name), on a cleared store
ExtractOne ==
    /\ phase = "input"
    /\ LET r == _extract_database(work, "d1", "D1", given)
       IN  /\ work' = r.store
           /\ out' = [raised |-> r.raised, stats |-> r.stats]
    /\ phase' = "done"
    /\ UNCHANGED <<code, pos, tokens, given, file, disk, conn, pc, run>>

NextExtract == ExtractOne

SpecExtract == InitExtract /\ [][NextExtract]_vars

\* the identity of a relationship
Identity(r) == <<r.database_id, r.source_table_name, r.source_field_name,
                 r.target_table_name, r.relationship_type>>

\* C1: after _extract_database completes, no two stored relationships rows
\* have the same (database_id, source_table_name, source_field_name,
\* target_table_name, relationship_type).
C1_OneRowPerIdentity ==
    (phase = "done" /\ ~out.raised) =>
        \A r1, r2 \in work.rels : Identity(r1) = Identity(r2) => r1 = r2

(***************************************************************************)
(* SpecQuery: one query on a store one extraction has filled               *)
(***************************************************************************)

\* the number of fragments a query is put together from
MaxQueryFrags == 2

QueryFrags == {
    <<"s", "e", "l", "e", "c", "t">>,
    <<"k", "u", "n", "d", "e", "n">>,
    <<"c", "u", "s", "t">>,
    <<" ">>,
    <<"\"">>,
    <<"%">>,
    <<"_">>,
    <<"\"", "s", "e", "l", "e", "c", "t", " ", "k", "u", "n", "d", "e", "n", "\"">> }

\* the queries: a text, or a text that goes on with a long run of letters
Queries == LET texts == Texts(QueryFrags, MaxQueryFrags)
           IN  texts \cup {Append(t, LongRun) : t \in texts}

\* the stores: what _extract_database leaves for the answers with one field at most
QueryStores ==
    {_extract_database(EmptyStore, "d1", "D1", Answer(dbc, tc, "Kunden", FALSE, fs)).store :
        dbc \in {NoCodes, [a \in {"globalCode"} |-> CodeText(FirstOrders)]},
        tc \in {NoCodes, [a \in {"afterCreate"} |-> CodeText(DoAsSales)]},
        fs \in FieldSeqs(1)}

QueryFilters == {
    [database_id |-> None, table_name |-> None, code_type |-> None],
    [database_id |-> "d1", table_name |-> "", code_type |-> "onClick"],
    [database_id |-> "d2", table_name |-> None, code_type |-> None],
    [database_id |-> None, table_name |-> "Orders", code_type |-> None] }

QueryTables == {"Orders", "Kunden", "Z", "(Database)"}

InitQuery ==
    /\ work \in QueryStores
    /\ given = <<>>
    /\ out = <<>>
    /\ phase = "input"
    /\ code = <<>>
    /\ pos = 0
    /\ tokens = <<>>
    /\ file = "ok"
    /\ disk = work
    /\ conn = "open"
    /\ pc = "idle"
    /\ run = <<>>

\* a call of search_scripts
SearchScripts ==
    /\ phase = "input"
    /\ \E q \in Queries, f \in QueryFilters, limit \in {1, DefaultLimit} :
        /\ given' = [op |-> "search_scripts", query |-> q, filter |-> f, limit |-> limit]
        /\ out' \in search_scripts(work, q, f.database_id, f.table_name, f.code_type, limit)
    /\ phase' = "done"
    /\ UNCHANGED <<code, pos, tokens, storeVars>>

\* a call of get_table_dependencies
GetTableDependencies ==
    /\ phase = "input"
    /\ \E t \in QueryTables :
        /\ given' = [op |-> "get_table_dependencies", table_name |-> t]
        /\ out' = get_table_dependencies(work, t)
    /\ phase' = "done"
    /\ UNCHANGED <<code, pos, tokens, storeVars>>

NextQuery == SearchScripts \/ GetTableDependencies

SpecQuery == InitQuery /\ [][NextQuery]_vars

Searched == phase = "done" /\ given.op = "search_scripts"

\* C6: search_scripts does not raise for a query the full-text engine rejects
\* as invalid syntax; it returns what search_scripts_simple gives for it.
C6_InvalidQueryFallsBack ==
    (Searched /\ Fts5Parse(given.query).error) =>
        /\ out.raised = ""
        /\ out \in search_scripts_simple(work, given.query, given.limit)

Asked == phase = "done" /\ given.op = "get_table_dependencies"

\* C7: in the answer of get_table_dependencies, references and referenced_by
\* hold no FORMULA_REF row and formula_references holds only FORMULA_REF rows.
C7_ListsKeepTypesApart ==
    Asked =>
        /\ \A r \in out.references \cup out.referenced_by :
                r.relationship_type # "FORMULA_REF"
        /\ \A r \in out.formula_references : r.relationship_type = "FORMULA_REF"

\* a table with a structural and a formula relationship was asked for
C7_Witness ==
    /\ Asked
    /\ out.references # {}
    /\ out.referenced_by \cup out.formula_references # {}
    /\ \E r \in work.rels : r.relationship_type = "FORMULA_REF"
                            /\ r.source_table_name = given.table_name

(***************************************************************************)
(* Spec: runs of extract_all on the store file                             *)
(***************************************************************************)

\* the number of runs of extract_all
MaxRuns == 2

\* the number of databases a listing names
MaxDatabases == 2

DatabaseIds == {"d1", "d2", "d3"}

\* db_info.get('name', db_id) of the listing
DatabaseName(id) == IF id = "d1" THEN "D1" ELSE id

Field(shape, k) == shape @@ [field_id |-> FieldIds[k]]

\* what get_database_schema answers: d1 has scripts and relationships, d2 has
\* a reference and no script, the second field of d3 has a null caption
RemoteSchema(id) ==
    IF id = "d1"
    THEN Answer(NoCodes, [a \in {"afterCreate"} |-> CodeText(DoAsSales)], "Kunden", FALSE,
                <<Field([PlainField EXCEPT !.base = "ref", !.refTypeId = "B"], 1),
                  Field([PlainField EXCEPT !.codes =
                            [a \in {"onClick"} |-> CodeText(SelectKunden)]], 2)>>)
    ELSE IF id = "d2"
    THEN Answer(NoCodes, NoCodes, "Kunden", FALSE,
                <<Field([PlainField EXCEPT !.base = "ref", !.refTypeId = "B"], 1)>>)
    ELSE Answer(NoCodes, NoCodes, "Kunden", FALSE,
                <<Field([PlainField EXCEPT !.codes =
                            [a \in {"fn"} |-> CodeText(SelectKunden)]], 1),
                  Field([PlainField EXCEPT !.caption = None], 2)>>)

RECURSIVE Listings(_)
\* the listings get_databases can answer: at most n databases, none twice
Listings(n) ==
    IF n = 0 THEN {<<>>}
    ELSE LET shorter == Listings(n - 1)
             longer  == {Append(l, id) : l \in {x \in shorter : Len(x) = n - 1},
                                         id \in DatabaseIds}
         IN  shorter \cup {l \in longer : \A i, j \in DOMAIN l : l[i] = l[j] => i = j}

\* the values of the parameter database_ids; None and [] both stand for no filter
Selections == {{}, {"d1"}, {"d2", "d3"}}

ZeroStats == [databases |-> 0, tables |-> 0, fields |-> 0, relationships |-> 0, scripts |-> 0]

\* no run yet
NoRun ==
    [count |-> 0, database_ids |-> {}, found |-> "absent", before |-> EmptyStore,
     listing |-> <<>>, todo |-> <<>>, done |-> <<>>, stats |-> ZeroStats, result |-> ""]

\* an integrity check that every file passes
IntegrityCheck_AlwaysOk(f) == TRUE

\* PRAGMA integrity_check on the file: it passes, or it answers something
\* else than 'ok' ("corrupt"), or the file is no database ("garbage")
IntegrityCheck(f) == f = "ok"

\* `if database_ids and db_id not in database_ids: continue`
Filtered(db_id, database_ids) == database_ids # {} /\ db_id \notin database_ids

\* the tables a store has rows in
HasRows(store) ==
    \/ store.databases # {} \/ store.tables # {} \/ store.fields # {}
    \/ store.scripts # {} \/ store.deps # {} \/ store.rels # {}
    \/ store.fts # {} \/ store.ghosts # {}

\* mutant: the deletes without DELETE FROM script_dependencies
Cleared_KeepsDependencies(store) ==
    [EmptyStore EXCEPT !.seq_scripts = store.seq_scripts, !.seq_deps = store.seq_deps,
                       !.deps = store.deps]

\* the seven DELETE statements; AUTOINCREMENT goes on counting
Cleared(store) ==
    [EmptyStore EXCEPT !.seq_scripts = store.seq_scripts, !.seq_deps = store.seq_deps]

\* cursor.execute("DELETE FROM scripts_fts"): the statement of extract_all that
\* empties the index of the mirror itself
DeleteFromMirror(store) == [store EXCEPT !.fts = {}]

\* DELETE FROM scripts_fts has emptied the index when DELETE FROM scripts fires
\* the trigger scripts_ad for each row, whose 'delete' command names entries
\* the index no more has. The mirror is then either found damaged (the
\* statement raises DatabaseError and is undone; the two deletes before it
\* stay in the open transaction), or it takes the commands and is left with
\* entries that belong to no row (ghosts).
DeleteOutcomes(store) ==
    IF store.scripts = {}
    THEN {[raised |-> FALSE, store |-> Cleared(store)]}
    ELSE {[raised |-> TRUE, store |-> [DeleteFromMirror(store) EXCEPT !.deps = {}]],
          [raised |-> FALSE,
           store |-> [Cleared(store) EXCEPT
                        !.ghosts = store.ghosts \cup {r.id : r \in store.scripts}]]}

\* the deletes without a commit of their own
CommitCleared_Skipped(on_disk, view) == on_disk

\* self.conn.commit() after the deletes: the file takes the view of the connection
CommitCleared(on_disk, view) == view

\* a loop without the except clause: the error of one database ends the run
AfterDatabase_Abort(r, raised, db_id, db_stats) ==
    IF raised
    THEN [r EXCEPT !.result = "raised in loop"]
    ELSE [r EXCEPT !.done = Append(@, [id |-> db_id, outcome |-> "extracted"]),
                   !.todo = Tail(@),
                   !.stats = [databases     |-> @.databases + 1,
                              tables        |-> @.tables + db_stats.tables,
                              fields        |-> @.fields + db_stats.fields,
                              relationships |-> @.relationships + db_stats.relationships,
                              scripts       |-> @.scripts + db_stats.scripts]]

\* `except Exception as e: ... continue` around one database
AfterDatabase(r, raised, db_id, db_stats) ==
    IF raised
    THEN [r EXCEPT !.done = Append(@, [id |-> db_id, outcome |-> "failed"]),
                   !.todo = Tail(@)]
    ELSE [r EXCEPT !.done = Append(@, [id |-> db_id, outcome |-> "extracted"]),
                   !.todo = Tail(@),
                   !.stats = [databases     |-> @.databases + 1,
                              tables        |-> @.tables + db_stats.tables,
                              fields        |-> @.fields + db_stats.fields,
                              relationships |-> @.relationships + db_stats.relationships,
                              scripts       |-> @.scripts + db_stats.scripts]]

Init ==
    /\ file = "absent"
    /\ disk = EmptyStore
    /\ conn = "none"
    /\ work = EmptyStore
    /\ pc = "idle"
    /\ run = NoRun
    /\ code = <<>>
    /\ pos = 0
    /\ tokens = <<>>
    /\ given = <<>>
    /\ out = <<>>
    /\ phase = "input"

\* extract_all(database_ids) up to init_database: the integrity check of an
\* existing file, the removal of a file that fails it, the connection
OpenStore ==
    /\ pc = "idle"
    /\ run.count < MaxRuns
    /\ \E database_ids \in Selections :
        run' = [NoRun EXCEPT !.count = run.count + 1, !.database_ids = database_ids,
                             !.found = file, !.before = disk]
    /\ IF file # "absent" /\ ~IntegrityCheck(file)
       THEN \* self.conn.close(); os.remove(self.db_path); self.init_database()
            /\ file' = "ok"
            /\ disk' = EmptyStore
            /\ work' = EmptyStore
       ELSE IF conn = "none"
       THEN \* self.init_database(): CREATE ... IF NOT EXISTS, commit
            /\ file' = "ok"
            /\ disk' = IF file = "absent" THEN EmptyStore ELSE disk
            /\ work' = disk'
       ELSE UNCHANGED <<file, disk, work>>
    /\ conn' = "open"
    /\ pc' = "opened"
    /\ UNCHANGED textVars

\* 'Alte Daten loeschen': the deletes and the commit after them
ClearOldData ==
    /\ pc = "opened"
    /\ \E o \in DeleteOutcomes(work) :
        IF o.raised
        THEN /\ work' = o.store
             /\ run' = [run EXCEPT !.result = "raised in clearing"]
             /\ pc' = "idle"
             /\ UNCHANGED disk
        ELSE /\ work' = o.store
             /\ disk' = CommitCleared(disk, o.store)
             /\ pc' = "cleared"
             /\ UNCHANGED run
    /\ UNCHANGED <<file, conn, textVars>>

\* databases = self.api.get_databases(), outside of any try
ListDatabases ==
    /\ pc = "cleared"
    /\ \/ \E l \in Listings(MaxDatabases) :
            /\ run' = [run EXCEPT !.listing = l, !.todo = l]
            /\ pc' = "loop"
       \/ /\ run' = [run EXCEPT !.result = "raised in listing"]
          /\ pc' = "idle"
    /\ UNCHANGED <<file, disk, conn, work, textVars>>

\* one iteration of `for db_info in databases`
ExtractNext ==
    /\ pc = "loop"
    /\ run.todo # <<>>
    /\ LET db_id == Head(run.todo) IN
       IF Filtered(db_id, run.database_ids)
       THEN /\ run' = [run EXCEPT !.todo = Tail(@)]
            /\ UNCHANGED work
       ELSE \/ \* self.api.get_database_schema(db_id) raises
               /\ run' = AfterDatabase(run, TRUE, db_id, ZeroStats)
               /\ UNCHANGED work
            \/ LET r == _extract_database(work, db_id, DatabaseName(db_id),
                                          RemoteSchema(db_id))
               IN  /\ work' = r.store
                   /\ run' = AfterDatabase(run, r.raised, db_id, r.stats)
    /\ pc' = IF run'.result = "" THEN "loop" ELSE "idle"
    /\ UNCHANGED <<file, disk, conn, textVars>>

\* self.conn.commit(); return stats
FinalCommit ==
    /\ pc = "loop"
    /\ run.todo = <<>>
    /\ disk' = work
    /\ run' = [run EXCEPT !.result = "returned"]
    /\ pc' = "idle"
    /\ UNCHANGED <<file, conn, work, textVars>>

\* close(), or the end of the process: what is not committed is lost
Close ==
    /\ pc = "idle"
    /\ conn = "open"
    /\ conn' = "none"
    /\ work' = disk
    /\ UNCHANGED <<file, disk, pc, run, textVars>>

\* the file is damaged while no connection is open
Corrupt ==
    /\ pc = "idle"
    /\ conn = "none"
    /\ file = "ok"
    /\ file' \in {"corrupt", "garbage"}
    /\ UNCHANGED <<disk, conn, work, pc, run, textVars>>

Next ==
    \/ OpenStore
    \/ ClearOldData
    \/ ListDatabases
    \/ ExtractNext
    \/ FinalCommit
    \/ Close
    \/ Corrupt

Spec == Init /\ [][Next]_vars

\* the mirror of a store holds one entry for each scripts row and nothing else
MirrorMatches(store) ==
    /\ store.fts = {r.id : r \in store.scripts}
    /\ store.ghosts = {}

\* C2: after any sequence of runs of extract_all the mirror scripts_fts holds
\* exactly one entry for every scripts row and none for an id without a row,
\* in the file and in the view of the connection.
C2_MirrorMatchesScripts ==
    pc = "idle" => MirrorMatches(disk) /\ MirrorMatches(work)

RECURSIVE Wanted(_, _)
\* the databases of a listing that pass the filter database_ids
Wanted(listing, database_ids) ==
    IF listing = <<>> THEN <<>>
    ELSE (IF Filtered(Head(listing), database_ids) THEN <<>> ELSE <<Head(listing)>>)
         \o Wanted(Tail(listing), database_ids)

Attempted(done) == [i \in DOMAIN done |-> done[i].id]

\* C4: an error of _extract_database for one database does not end the run:
\* every database of the listing that passes the filter is attempted in its
\* turn, and the run ends with the final commit and its statistics.
C4_FailureIsSkipped ==
    /\ run.result # "raised in loop"
    /\ (pc = "loop" \/ run.result = "returned") =>
            Attempted(run.done) \o Wanted(run.todo, run.database_ids)
                = Wanted(run.listing, run.database_ids)
    /\ run.result = "returned" =>
            /\ run.todo = <<>>
            /\ disk = work
            /\ run.stats.databases =
                    Cardinality({i \in DOMAIN run.done : run.done[i].outcome = "extracted"})

\* a run has returned in which a database was extracted after another had failed
C4_Witness ==
    /\ run.result = "returned"
    /\ \E i, j \in DOMAIN run.done :
            /\ i < j
            /\ run.done[i].outcome = "failed"
            /\ run.done[j].outcome = "extracted"
    /\ work.databases # {}

\* C5: a file that fails the integrity check is removed and the schema made
\* anew: before the first row is inserted the store is the empty store and
\* nothing of the old file is in it; a file that passes the check is kept.
C5_CorruptStoreIsRebuilt ==
    /\ (pc \in {"opened", "cleared"} /\ run.found \in {"corrupt", "garbage"}) =>
            /\ file = "ok"
            /\ conn = "open"
            /\ disk = EmptyStore
            /\ work = EmptyStore
    /\ (pc = "opened" /\ run.found = "ok") =>
            /\ file = "ok"
            /\ disk = run.before

\* a run has opened a damaged file that held rows
C5_Witness ==
    /\ pc = "opened"
    /\ run.found \in {"corrupt", "garbage"}
    /\ HasRows(run.before)

NoData(store) ==
    /\ store.databases = {} /\ store.tables = {} /\ store.fields = {}
    /\ store.scripts = {} /\ store.deps = {} /\ store.rels = {}
    /\ store.fts = {}

C11_OnlyCommitIsFatal ==
    pc = "idle" => run.result \in {"", "returned"}

RowIds(rows) == {r.id : r \in rows}

\* C12: scripts_fts is written by the triggers on scripts only: as long as the
\* connection stays open, the mirror gains exactly the entries of the scripts
\* rows inserted and loses exactly the entries of the scripts rows deleted.
C12_MirrorWrittenByTriggersOnly ==
    [][(conn = "open" /\ conn' = "open") =>
            /\ work'.fts \ work.fts = RowIds(work'.scripts \ work.scripts)
            /\ work.fts \ work'.fts = RowIds(work.scripts \ work'.scripts)]_vars


\* C13: the three lists of get_table_dependencies are pairwise disjoint, for
\* every table name and every content of relationships, tables that refer to
\* themselves included: no row is in more than one list.
C13_ListsAreDisjoint ==
    Asked =>
        /\ out.references \cap out.referenced_by = {}
        /\ out.references \cap out.formula_references = {}
        /\ out.referenced_by \cap out.formula_references = {}


\* no branch of tokenize but the last one takes a text that starts with c
NoRuleMatches(s, p) ==
    LET c == At(s, p) IN
    /\ c \notin {"\n", " ", "\t", "\r", "\"", "'"}
    /\ c \notin {"+", "-", "*", "/", "%", "=", "<", ">"}
    /\ c \notin {"(", ")", "[", "]", "{", "}", ",", ".", ";", ":"}
    /\ Slice(s, p, p + 2) # <<"!", "=">>
    /\ ~IsDigit(c) /\ ~IsAlpha(c) /\ c # "_"

\* the position after the last token emitted
ScannedTo(ts) == IF ts = <<>> THEN 0 ELSE ts[Len(ts)].end

\* C14: the tokens are non-empty and contiguous: the first starts at 0, each
\* starts where the one before ended, the last ends at len(input), and each
\* value is input[start:end]; a character no rule matches is an IDENTIFIER of
\* one character; so every iteration moves the position forward, inside the
\* text, and the scan ends.
C14_TokensAreContiguous ==
    /\ [](/\ \A i \in DOMAIN tokens :
                /\ tokens[i].start < tokens[i].end
                /\ tokens[i].start = (IF i = 1 THEN 0 ELSE tokens[i - 1].end)
                /\ tokens[i].value = Slice(code, tokens[i].start, tokens[i].end)
                /\ NoRuleMatches(code, tokens[i].start)
                      => /\ tokens[i].type = "identifier"
                         /\ tokens[i].end = tokens[i].start + 1
          /\ pos = ScannedTo(tokens)
          /\ pos <= Len(code)
          /\ phase = "done" => ScannedTo(tokens) = Len(code))
    /\ [][pos < pos' /\ pos' <= Len(code)]_vars

\* a scan that has returned, with an unmatched character between other tokens
C14_Witness ==
    /\ phase = "done"
    /\ Len(tokens) = 3
    /\ tokens[2].value = <<"#">> /\ tokens[2].type = "identifier"
    /\ tokens[1].end - tokens[1].start > 1
    /\ tokens[3].end = Len(code)


\* the relationships the structural pass has emitted: those without a script
StructuralRows(store) == {r \in store.rels : r.found_in_code_type = None}

\* the fields of the answer, each with the table it stands in
SchemaFieldsOf(schema) ==
    UNION {{[type_id |-> schema.types[i].type_id, field |-> schema.types[i].fields[k]] :
                k \in DOMAIN schema.types[i].fields} : i \in DOMAIN schema.types}

\* C15: every structural relationship of a field with base 'ref' is CROSS_DB
\* if the field has a dbId and N:1 if not, has the field's dbId and dbName as
\* target database and the field's composition flag; the structural pass
\* emits no FORMULA_REF.
C15_StructuralTypeFollowsDbId ==
    (phase = "done" /\ ~out.raised) =>
        \A r \in StructuralRows(work) :
            /\ r.relationship_type # "FORMULA_REF"
            /\ \E sf \in SchemaFieldsOf(given) :
                /\ sf.type_id = r.source_table_id
                /\ sf.field.field_id = r.source_field_id
                /\ sf.field.base = "ref"
                /\ r.relationship_type = (IF Truthy(sf.field.dbId) THEN "CROSS_DB" ELSE "N:1")
                /\ r.target_database_id = Get(sf.field.dbId, None)
                /\ r.target_database_name = Get(sf.field.dbName, None)
                /\ r.is_composition = sf.field.composition

\* a field with a dbId and a composition without one, in one extraction
C15_Witness ==
    /\ phase = "done" /\ ~out.raised
    /\ \E r \in StructuralRows(work) :
            r.relationship_type = "CROSS_DB" /\ r.target_database_name = "DX"
    /\ \E r \in StructuralRows(work) :
            r.relationship_type = "N:1" /\ r.is_composition


\* the attributes a classification table names, and the category of one
Recognized(attrs) == {attrs[k][1] : k \in DOMAIN attrs}
Category(attrs, a) == attrs[CHOOSE k \in DOMAIN attrs : attrs[k][1] = a][2]

\* a value that is to yield a script: a string that is not empty and, if
\* stripped is set, has a character that is not white space
Qualifies(v, stripped) == v.isstr /\ v.text # <<>> /\ (stripped => HasText(v.text))

\* the scripts due for the attributes of one database, table or field
ExpectedAt(attrs, codes, table_id, element_id, stripped) ==
    {[table_id |-> table_id, element_id |-> element_id, code_type |-> a,
      code_category |-> Category(attrs, a), code |-> codes[a].text] :
        a \in {x \in DOMAIN codes \cap Recognized(attrs) :
                /\ Qualifies(codes[x], stripped)
                /\ ~(element_id # None /\ x = "fn" /\ Len(codes[x].text) < MinFormulaLen)}}

\* the scripts due for an answer
ExpectedScripts(schema, stripped) ==
    ExpectedAt(DATABASE_CODE_FIELDS, schema.codes, None, None, stripped)
    \cup UNION {ExpectedAt(TABLE_CODE_FIELDS, schema.types[i].codes,
                           schema.types[i].type_id, None, stripped) : i \in DOMAIN schema.types}
    \cup UNION {ExpectedAt(FIELD_CODE_FIELDS, sf.field.codes, sf.type_id,
                           sf.field.field_id, stripped) : sf \in SchemaFieldsOf(schema)}

\* the scripts stored, by place, attribute, category and text
Emitted(store) ==
    {[table_id |-> r.table_id, element_id |-> r.element_id, code_type |-> r.code_type,
      code_category |-> r.code_category, code |-> r.code] : r \in store.scripts}

\* the stored scripts are the expected ones, one row each
ScriptsAre(expected) ==
    /\ Emitted(work) = expected
    /\ Cardinality(work.scripts) = Cardinality(expected)

\* C16 as stated: exactly one Script for each recognized code attribute, of
\* the database, a table or a field, whose value is a non-empty string, with
\* the category of the classification table, except a field's 'fn' shorter
\* than 3 characters; no Script for any other attribute or value.
C16_OneScriptPerNonEmptyString ==
    (phase = "done" /\ ~out.raised) => ScriptsAre(ExpectedScripts(given, FALSE))

\* C16 amended: exactly one Script for each recognized code attribute whose
\* value is a string with at least one character that is not white space,
\* with the category of the classification table, except a field's 'fn'
\* shorter than 3 characters; no Script for any other attribute or value.
C16_OneScriptPerStringWithText ==
    (phase = "done" /\ ~out.raised) => ScriptsAre(ExpectedScripts(given, TRUE))

\* an answer with a blank attribute and one that yields a script
C16_Witness ==
    /\ phase = "done" /\ ~out.raised
    /\ ExpectedScripts(given, FALSE) # ExpectedScripts(given, TRUE)
    /\ \E r \in work.scripts : r.element_id # None /\ r.code_category = "formula"


\* the target of a field is a key of one of the maps of pass 1
Resolves(f, types) ==
    \/ f.refTypeId \in DOMAIN TableIdToName(types)
    \/ f.refTypeUUID \in DOMAIN TableUuidToName(types)

\* C17: a structural relationship is emitted for a field exactly when its base
\* is 'ref' and its target resolves through the maps of pass 1 (refTypeId in
\* the id map or refTypeUUID in the uuid map); a ref field whose target is in
\* neither map yields none.
C17_RelationshipIffResolved ==
    (phase = "done" /\ ~out.raised) =>
        \A sf \in SchemaFieldsOf(given) :
            (\E r \in StructuralRows(work) :
                /\ r.source_table_id = sf.type_id
                /\ r.source_field_id = sf.field.field_id)
            <=> (sf.field.base = "ref" /\ Resolves(sf.field, given.types))


(***************************************************************************)
(* SpecFormula: _extract_formula_references applied to scripts put         *)
(* together from fragments, with and without known tables                  *)
(***************************************************************************)

\* the number of fragments a script is put together from
MaxFormulaFrags == 3

FormulaFrags == {
    <<"s", "e", "l", "e", "c", "t">>, <<"f", "i", "r", "s", "t">>, <<"s", "u", "m">>,
    <<" ">>, <<"(">>, <<"'">>, <<".">>,
    <<"K", "u", "n", "d", "e", "n">>, <<"w", "h", "e", "r", "e">>, <<"F", "o", "r">>,
    <<"a", "b">> }

KnownTableSets == {{}, {"Kunden"}, {"Kunden", "where"}}

InitFormula ==
    /\ code \in Texts(FormulaFrags, MaxFormulaFrags)
    /\ given \in {[known_tables |-> k] : k \in KnownTableSets}
    /\ pos = 0
    /\ tokens = <<>>
    /\ out = <<>>
    /\ phase = "input"
    /\ NoStoreVars

\* refs = self._extract_formula_references(script.code, known_tables)
ExtractFormulaReferences ==
    /\ phase = "input"
    /\ out' = _extract_formula_references(code, given.known_tables)
    /\ phase' = "done"
    /\ UNCHANGED <<code, pos, tokens, given, storeVars>>

NextFormula == ExtractFormulaReferences

SpecFormula == InitFormula /\ [][NextFormula]_vars

\* C18: _extract_formula_references returns no reserved word of the language
\* as a table reference, unless it is the name of a known table: a captured
\* name that is in KEYWORDS and not in known_tables is rejected.
C18_NoKeywordAsTable ==
    phase = "done" => \A name \in out : name \in KEYWORDS => name \in given.known_tables


\* C19: a word that is no reserved word and is a name of BUILTIN_FUNCTIONS,
\* as the name is written there, is a BUILTIN when the next character after
\* spaces and tabs is '(' and is no BUILTIN otherwise.
C19_BuiltinNameAsWritten ==
    \A i \in DOMAIN tokens :
        LET t == tokens[i] IN
        (/\ IsWordToken(t)
         /\ Str(LowerText(t.value)) \notin KEYWORDS
         /\ Str(t.value) \in BUILTIN_FUNCTIONS)
        => (t.type = "builtin" <=> FollowedBy(code, t.end, "("))


\* the field refers to the table T: by refTypeId, or else by refTypeUUID
RefersTo(f, T) ==
    IF Truthy(f.refTypeId) THEN f.refTypeId = T.type_id
    ELSE Truthy(f.refTypeUUID) /\ f.refTypeUUID = T.uuid

\* C20: the resolved target name of a ref field does not depend on the order
\* of the tables in the schema: a field that refers, by refTypeId or by
\* refTypeUUID, to a table of the same database resolves to the caption of
\* that table, be it earlier or later in the answer.
C20_ResolutionIgnoresOrder ==
    (phase = "done" /\ ~out.raised) =>
        \A sf \in SchemaFieldsOf(given) : \A i \in DOMAIN given.types :
            RefersTo(sf.field, given.types[i]) =>
                \E row \in work.fields :
                    /\ row.table_id = sf.type_id
                    /\ row.field_id = sf.field.field_id
                    /\ row.ref_table_name = Get(given.types[i].caption, given.types[i].type_id)

\* table A comes first and its fields refer to the later table B, one by id
\* and one by uuid
C20_Witness ==
    /\ phase = "done" /\ ~out.raised
    /\ given.types[1].type_id = "A"
    /\ \E row \in work.fields :
            row.table_id = "A" /\ row.ref_table_id = "B" /\ row.ref_table_name = "Kunden"
    /\ \E row \in work.fields :
            row.table_id = "A" /\ row.ref_table_id = None /\ row.ref_table_name = "Kunden"


\* the text after an exponent marker: an optional sign and at least one digit
IsExponent(text) ==
    LET digits == IF text # <<>> /\ text[1] \in {"+", "-"} THEN Tail(text) ELSE text
    IN  digits # <<>> /\ \A i \in DOMAIN digits : IsDigit(digits[i])

\* digits with at most one decimal point, then at most one exponent suffix
IsNumberShape(text) ==
    LET marks == {i \in DOMAIN text : text[i] \in {"e", "E"}}
        k     == IF marks = {} THEN Len(text) + 1
                 ELSE CHOOSE i \in marks : \A j \in marks : i <= j
        mant  == SubSeq(text, 1, k - 1)
    IN  /\ \A i \in DOMAIN mant : IsDigit(mant[i]) \/ mant[i] = "."
        /\ \E i \in DOMAIN mant : IsDigit(mant[i])
        /\ Cardinality({i \in DOMAIN mant : mant[i] = "."}) <= 1
        /\ k <= Len(text) => IsExponent(SubSeq(text, k + 1, Len(text)))

\* C21: every NUMBER token is digits with at most one decimal point, followed
\* by at most one exponent suffix (e or E, an optional sign, digits): the scan
\* of a number stops before a second decimal point and before a second
\* exponent marker.
C21_NumberShape ==
    \A i \in DOMAIN tokens : tokens[i].type = "number" => IsNumberShape(tokens[i].value)


(***************************************************************************)
(* format_code: re-indentation over the token stream                       *)
(***************************************************************************)

\* indent_size, the default of the parameter
IndentSize == 4

\* the keywords of format_code: indent_after, dedent_before, own_line
IndentAfter == {"do", "then", "{"}
DedentBefore == {"end", "else", "}"}
OwnLine == {"let", "for", "if", "switch", "case", "else", "end"}

\* ' ' * n
Spaces(n) == [i \in 1..n |-> " "]

\* max(0, indent_level - 1)
Dedent(level) == IF level > 0 THEN level - 1 ELSE 0

\* ''.join(result).strip()
Strip(s) == RStrip(LStrip(s))

\* what the body of the loop does after the dedent, for a token that is
\* neither a newline nor white space at a line start
FormatToken(st, level, token, value_lower) ==
    LET indented == IF st.line_start THEN Append(st.result, Spaces(level * IndentSize))
                    ELSE st.result
        last     == indented[Len(indented)]
        own      == IF /\ token.type = "keyword" /\ value_lower \in OwnLine
                       /\ indented # <<>> /\ last \notin {<<>>, <<"\n">>}
                    THEN indented \o <<<<"\n">>, Spaces(level * IndentSize)>>
                    ELSE indented
        added    == Append(own, token.value)
        opens    == \/ (token.type = "keyword" /\ value_lower \in IndentAfter)
                    \/ (token.type = "punctuation" /\ token.value = <<"{">>)
        level2   == IF opens THEN level + 1 ELSE level
        after    == IF opens THEN added \o <<<<"\n">>, Spaces(level2 * IndentSize)>>
                    ELSE added
    IN  IF token.type = "punctuation" /\ token.value = <<";">>
        THEN [result |-> Append(after, <<"\n">>), indent_level |-> level2, line_start |-> TRUE]
        ELSE [result |-> after, indent_level |-> level2, line_start |-> FALSE]

\* one iteration of `for token in tokens`
FormatStep(st, token) ==
    LET value_lower == Str(LowerText(token.value))
        dedents     == \/ (token.type = "keyword" /\ value_lower \in DedentBefore)
                       \/ (token.type = "punctuation" /\ token.value = <<"}">>)
        level       == IF dedents THEN Dedent(st.indent_level) ELSE st.indent_level
    IN  IF token.type = "newline"
        THEN [result |-> Append(st.result, <<"\n">>), indent_level |-> level, line_start |-> TRUE]
        ELSE IF token.type = "whitespace" /\ st.line_start
        THEN [st EXCEPT !.indent_level = level]
        ELSE FormatToken(st, level, token, value_lower)

RECURSIVE FormatFrom(_, _, _)
FormatFrom(ts, k, st) ==
    IF k > Len(ts) THEN st ELSE FormatFrom(ts, k + 1, FormatStep(st, ts[k]))

\* format_code(code)
format_code(s) ==
    IF s = <<>> THEN s
    ELSE Strip(Flatten(FormatFrom(tokenize(s), 1,
            [result |-> <<>>, indent_level |-> 0, line_start |-> TRUE]).result))

(***************************************************************************)
(* SpecFormat: format_code applied to a script and then to its own output  *)
(***************************************************************************)

\* the number of fragments a script to format is put together from
MaxFormatFrags == 3

FormatFrags == {
    <<"d", "o">>, <<"i", "f">>, <<"e", "n", "d">>, <<"a">>, <<" ">>, <<"\n">>,
    <<";">>, <<"{">>, <<"}">>, <<"/", "/">>, <<"\"">> }

InitFormat ==
    /\ code \in Texts(FormatFrags, MaxFormatFrags)
    /\ given = <<>>
    /\ pos = 0
    /\ tokens = <<>>
    /\ out = <<>>
    /\ phase = "input"
    /\ NoStoreVars

\* formatted = format_code(code)
FormatCode ==
    /\ phase = "input"
    /\ out' = [formatted |-> format_code(code)]
    /\ phase' = "formatted"
    /\ UNCHANGED <<code, pos, tokens, given, storeVars>>

\* format_code(formatted)
FormatAgain ==
    /\ phase = "formatted"
    /\ out' = [formatted |-> out.formatted, again |-> format_code(out.formatted)]
    /\ phase' = "done"
    /\ UNCHANGED <<code, pos, tokens, given, storeVars>>

NextFormat == FormatCode \/ FormatAgain

SpecFormat == InitFormat /\ [][NextFormat]_vars

\* C22: format_code is idempotent: format_code(format_code(c)) = format_code(c)
\* for every input c.
C22_FormatIsIdempotent ==
    phase = "done" => out.again = out.formatted


(***************************************************************************)
(* escape_html and highlight_code                                          *)
(***************************************************************************)

\* the letter U+0130 and the two characters str.lower() turns it into; every
\* other character has a lower-case form of one character
CapitalIDot == "U+0130"
SmallIDotless == "i"
CombiningDot == "U+0307"

\* str.lower(): the only conversion that changes the length is that of U+0130
PyLower(s) ==
    Flatten([i \in DOMAIN s |-> IF s[i] = CapitalIDot THEN <<SmallIDotless, CombiningDot>>
                                ELSE <<LowerChar(s[i])>>])

\* text.replace(c, by) for a single character c
Replace(text, c, by) == Flatten([i \in DOMAIN text |-> IF text[i] = c THEN by ELSE <<text[i]>>])

\* escape_html(text)
escape_html(text) ==
    Replace(Replace(Replace(Replace(text,
        "&", <<"&", "a", "m", "p", ";">>),
        "<", <<"&", "l", "t", ";">>),
        ">", <<"&", "g", "t", ";">>),
        "\"", <<"&", "q", "u", "o", "t", ";">>)

\* <span class="nx-highlight"> and </span>
HighlightOpen == <<"<", "s", "p", "a", "n", " ", "c", "l", "a", "s", "s", "=", "\"", "n", "x", "-", "h", "i", "g", "h", "l", "i", "g", "h", "t", "\"", ">">>
HighlightClose == <<"<", "/", "s", "p", "a", "n", ">">>

\* TOKEN_CSS_CLASSES.get(token.type, '')
TOKEN_CSS_CLASSES(type) == IF type \in {"whitespace", "newline"} THEN "" ELSE "nx-" \o type

\* escaped_value of a token: the value escaped, with the match wrapped if the
\* lower-cased value holds the lower-cased highlight text
EscapedValue(value, highlight_text) ==
    LET idx == Find(PyLower(value), PyLower(highlight_text), 0)
    IN  IF highlight_text # <<>> /\ idx >= 0
        THEN escape_html(Slice(value, 0, idx))
             \o HighlightOpen
             \o escape_html(Slice(value, idx, idx + Len(highlight_text)))
             \o HighlightClose
             \o escape_html(Slice(value, idx + Len(highlight_text), Len(value)))
        ELSE escape_html(value)

(***************************************************************************)
(* SpecHighlight: highlight_code on a script, token by token               *)
(***************************************************************************)

\* the number of fragments a script to render is put together from
MaxHighlightFrags == 3

\* U+0130 stands inside a string literal only: the letter classes of the
\* tokenizer are those of the ASCII characters
HighlightFrags == {
    <<"a">>, <<"A", "&">>, <<"<">>, <<" ">>, <<"\n">>, <<"-", "-", "-">>, <<"/", "/">>,
    <<"\"", CapitalIDot, "a", "<", "\"">>,
    <<"'", "a", "\n", "a", "'">> }

HighlightTexts == {<<>>, <<"a">>, <<"&">>}

InitHighlight ==
    /\ code \in Texts(HighlightFrags, MaxHighlightFrags) \ {<<>>}
    /\ given \in {[highlight_text |-> h] : h \in HighlightTexts}
    /\ pos = 0
    /\ tokens = <<>>
    /\ out = <<>>
    /\ phase = "input"
    /\ NoStoreVars

\* tokens = tokenize(code); lines = ['']; current_line = 0
TokenizeCode ==
    /\ phase = "input"
    /\ tokens' = tokenize(code)
    /\ out' = [lines |-> <<<<>>>>, current_line |-> 0, escaped_value |-> <<>>, rows |-> 0]
    /\ pos' = 0
    /\ phase' = "tokens"
    /\ UNCHANGED <<code, given, storeVars>>

\* one iteration of `for token in tokens`; pos counts the tokens rendered
RenderToken ==
    /\ phase = "tokens"
    /\ pos < Len(tokens)
    /\ LET token == tokens[pos + 1]
           value == EscapedValue(token.value, given.highlight_text)
       IN  out' = IF token.type = "newline"
                  THEN [out EXCEPT !.lines = Append(@, <<>>),
                                   !.current_line = @ + 1,
                                   !.escaped_value = <<>>]
                  ELSE [out EXCEPT !.lines[out.current_line + 1] =
                                        Append(@, [css_class |-> TOKEN_CSS_CLASSES(token.type),
                                                   escaped_value |-> value]),
                                   !.escaped_value = value]
    /\ pos' = pos + 1
    /\ UNCHANGED <<code, tokens, given, phase, storeVars>>

\* 'Build final HTML': one row for each element of lines
BuildHtml ==
    /\ phase = "tokens"
    /\ pos = Len(tokens)
    /\ out' = [out EXCEPT !.rows = Len(out.lines)]
    /\ phase' = "done"
    /\ UNCHANGED <<code, pos, tokens, given, storeVars>>

NextHighlight == TokenizeCode \/ RenderToken \/ BuildHtml

SpecHighlight == InitHighlight /\ [][NextHighlight]_vars

\* the places where the query occurs in the text, letter case aside
Occurrences(value, query) ==
    {i \in 0..(Len(value) - Len(query)) :
        PyLower(Slice(value, i, i + Len(query))) = PyLower(query)}

RECURSIVE WithoutMarkers(_)
\* the text without the marker tags
WithoutMarkers(text) ==
    IF text = <<>> THEN <<>>
    ELSE IF StartsWithAt(text, HighlightOpen, 0)
         THEN WithoutMarkers(Slice(text, Len(HighlightOpen), Len(text)))
    ELSE IF StartsWithAt(text, HighlightClose, 0)
         THEN WithoutMarkers(Slice(text, Len(HighlightClose), Len(text)))
    ELSE <<text[1]>> \o WithoutMarkers(Tail(text))

\* the token rendered last, if it was no newline
Rendered == phase = "tokens" /\ pos > 0 /\ tokens[pos].type # "newline"

\* C23: for every token whose text holds the query, letter case aside, the
\* first occurrence and only it is wrapped in the highlight marker, the parts
\* before, inside and after it are HTML-escaped once each, and the emitted
\* text without the marker tags is escape_html(token text).
C23_FirstOccurrenceIsWrapped ==
    Rendered =>
        LET value == tokens[pos].value
            query == given.highlight_text
            found == Occurrences(value, query)
        IN  /\ WithoutMarkers(out.escaped_value) = escape_html(value)
            /\ (query # <<>> /\ found # {}) =>
                    LET first == CHOOSE i \in found : \A j \in found : i <= j
                    IN  out.escaped_value =
                            escape_html(Slice(value, 0, first))
                            \o HighlightOpen
                            \o escape_html(Slice(value, first, first + Len(query)))
                            \o HighlightClose
                            \o escape_html(Slice(value, first + Len(query), Len(value)))
            /\ (query = <<>> \/ found = {}) => out.escaped_value = escape_html(value)


\* C24: every row search_scripts returns satisfies all the filters the caller
\* gave (database_id, table_name, code_type) and the result has at most
\* `limit` rows, on the full-text path and on the fallback path alike.
C24_RowsPassFilters ==
    (Searched /\ out.raised = "") =>
        /\ Cardinality(out.rows) <= given.limit
        /\ \A s \in out.rows :
            /\ Truthy(given.filter.database_id) => s.database_id = given.filter.database_id
            /\ Truthy(given.filter.table_name) => s.table_name = given.filter.table_name
            /\ Truthy(given.filter.code_type) => s.code_type = given.filter.code_type


\* the rows of the database db_id in a store, of every table
RowsOf(store, db_id) ==
    {d \in store.databases : d.id = db_id}
    \cup {t \in store.tables : t.database_id = db_id}
    \cup {f \in store.fields : f.database_id = db_id}
    \cup {s \in store.scripts : s.database_id = db_id}
    \cup {d \in store.deps : d.source_database_id = db_id}
    \cup {r \in store.rels : r.database_id = db_id}

\* C25: the extraction of one database is all or nothing: if
\* _extract_database raises for it, at whatever point, the store committed at
\* the end of extract_all holds no row of that database in any table.
C25_FailedDatabaseLeavesNoRow ==
    run.result = "returned" =>
        \A i \in DOMAIN run.done :
            run.done[i].outcome = "failed" => RowsOf(disk, run.done[i].id) = {}


\* C26: extract_all clears the whole store whatever its scope: after a run,
\* be it with a filter or one of several runs on the same file, the store
\* holds only rows the last run has inserted; rows of databases outside the
\* filter and rows of earlier runs do not survive.
C26_OnlyRowsOfLastRun ==
    (pc = "idle" /\ run.result # "") =>
        /\ \A db_id \in DatabaseIds :
                RowsOf(disk, db_id) # {}
                    => /\ db_id \in {run.done[i].id : i \in DOMAIN run.done}
                       /\ ~Filtered(db_id, run.database_ids)
        /\ \A s \in disk.scripts : s.id > run.before.seq_scripts


\* the script_dependencies rows of a store whose script is there, in the
\* database the row names as its source
HasItsScript(store, d) ==
    \E s \in store.scripts : s.id = d.script_id /\ s.database_id = d.source_database_id

\* C27: in the file and in the view of the connection, at every step of every
\* run (runs in which a database fails or the clearing raises included), each
\* script_dependencies row has its scripts row: script_id is the id of a
\* scripts row whose database_id is the row's source_database_id.
C27_DependencyHasItsScript ==
    /\ \A d \in disk.deps : HasItsScript(disk, d)
    /\ \A d \in work.deps : HasItsScript(work, d)

\* a later run has ended, a database of it has failed, and the file holds
\* dependency rows
C27_Witness ==
    /\ pc = "idle" /\ run.count = 2 /\ run.result = "returned"
    /\ \E i \in DOMAIN run.done : run.done[i].outcome = "failed"
    /\ disk.deps # {}


\* C28: the line rows highlight_code renders for a non-empty code are as many
\* as the line_count of the script, the number of '\n'-delimited segments of
\* the code, also when a comment or a string literal goes over several lines.
C28_RowsAreLineCount ==
    (phase = "done" /\ code # <<>>) => out.rows = LineCount(code)


\* the texts of the tokens that are neither WHITESPACE nor NEWLINE, in order
SolidTexts(ts) ==
    LET Solid(t) == t.type \notin {"whitespace", "newline"}
        kept == SelectSeq(ts, Solid)
    IN  [i \in DOMAIN kept |-> kept[i].value]

\* C29: format_code changes only whitespace: the texts of the tokens of its
\* output that are neither WHITESPACE nor NEWLINE are, in order, those of the
\* input.
C29_OnlyWhitespaceChanges ==
    phase \in {"formatted", "done"}
        => SolidTexts(tokenize(out.formatted)) = SolidTexts(tokenize(code))


(***************************************************************************)
(* ninox_scripts.py: filter_scripts and the key handlers of NinoxScriptsApp*)
(***************************************************************************)

RECURSIVE SplitOn(_, _)
\* s.split(sep)
SplitOn(s, sep) ==
    LET i == Find(s, sep, 0)
    IN  IF i = -1 THEN <<s>>
        ELSE <<Slice(s, 0, i)>> \o SplitOn(Slice(s, i + Len(sep), Len(s)), sep)

\* " ".join([database_name, table_name, element_name, code_type,
\* code_category, code]).lower()
SearchText(script) ==
    PyLower(script.database_name \o <<" ">> \o script.table_name \o <<" ">>
            \o script.element_name \o <<" ">> \o script.code_type \o <<" ">>
            \o script.code_category \o <<" ">> \o script.code)

\* the loop over and_terms: no term that is not empty is missing in search_text
AllMatch(or_group, search_text) ==
    LET and_terms == SplitOn(or_group, <<" ", "A", "N", "D", " ">>)
    IN  \A k \in DOMAIN and_terms :
            LET term == PyLower(Strip(and_terms[k]))
            IN  ~(term # <<>> /\ Find(search_text, term, 0) = -1)

\* filter_scripts(scripts, filter_text)
filter_scripts(scripts, filter_text) ==
    LET stripped  == Strip(filter_text)
        or_groups == SplitOn(stripped, <<" ", "O", "R", " ">>)
        Kept(script) ==
            \E g \in DOMAIN or_groups :
                /\ Strip(or_groups[g]) # <<>>
                /\ AllMatch(Strip(or_groups[g]), SearchText(script))
    IN  IF stripped = <<>> THEN scripts ELSE SelectSeq(scripts, Kept)

\* the rows action_page_up and action_page_down move by
PageStep == 5

\* mutant: the new index is taken as it is
update_selection_Unclamped(app, new_index) ==
    IF app.filtered_scripts = <<>> THEN app
    ELSE [app EXCEPT !.selected_index = new_index]

\* update_selection(new_index)
update_selection(app, new_index) ==
    IF app.filtered_scripts = <<>> THEN app
    ELSE [app EXCEPT !.selected_index =
                Max(0, Min(new_index, Len(app.filtered_scripts) - 1))]

(***************************************************************************)
(* SpecApp: the keys of NinoxScriptsApp on a list of scripts               *)
(***************************************************************************)

\* a Script of database D, table T, with its element name and its code
Script(id, element_name, script_code) ==
    [id |-> id, database_name |-> <<"D">>, table_name |-> <<"T">>,
     element_name |-> element_name, code_type |-> <<"f", "n">>,
     code_category |-> <<"f", "i", "e", "l", "d">>, code |-> script_code]

\* the lists load_scripts hands the app
ScriptLists == {
    <<>>,
    <<Script(1, <<"a">>, <<"x">>)>>,
    <<Script(1, <<"a">>, <<"x">>), Script(2, <<"y">>, <<"z">>), Script(3, <<"x">>, <<"A", " ", "y">>)>>,
    <<Script(1, <<"a">>, <<"x">>), Script(2, <<"y">>, <<"z">>), Script(3, <<"x">>, <<"A", " ", "y">>),
      Script(4, <<"y">>, <<"y">>), Script(5, <<"z">>, <<"a">>), Script(6, <<"a">>, <<"a">>),
      Script(7, <<"x">>, <<"x">>)>> }

\* what the user has typed into the filter input
FilterInputs == {
    <<>>, <<" ">>, <<"a">>, <<"A">>, <<"q">>,
    <<"x", " ", "A", "N", "D", " ", "a">>,
    <<"y", " ", "O", "R", " ", "z">>,
    <<"a", " ", "O", "R", " ">>,
    <<" ", "A", "N", "D", " ", "z">> }

\* NinoxScriptsApp.__init__(scripts)
InitApp ==
    /\ out \in {[all_scripts |-> scripts, filtered_scripts |-> scripts,
                 selected_index |-> 0, filter_text |-> <<>>,
                 showing_code |-> FALSE, filtering |-> FALSE, viewer |-> <<>>]
                    : scripts \in ScriptLists}
    /\ code = <<>>
    /\ given = <<>>
    /\ pos = 0
    /\ tokens = <<>>
    /\ phase = "app"
    /\ NoStoreVars

action_up ==
    /\ out' = IF ~out.showing_code /\ ~out.filtering
              THEN update_selection(out, out.selected_index - 1)
              ELSE out
    /\ UNCHANGED <<code, pos, tokens, given, phase, storeVars>>

action_down ==
    /\ out' = IF ~out.showing_code /\ ~out.filtering
              THEN update_selection(out, out.selected_index + 1)
              ELSE out
    /\ UNCHANGED <<code, pos, tokens, given, phase, storeVars>>

action_page_up ==
    /\ out' = IF ~out.showing_code /\ ~out.filtering
              THEN update_selection(out, out.selected_index - PageStep)
              ELSE out
    /\ UNCHANGED <<code, pos, tokens, given, phase, storeVars>>

action_page_down ==
    /\ out' = IF ~out.showing_code /\ ~out.filtering
              THEN update_selection(out, out.selected_index + PageStep)
              ELSE out
    /\ UNCHANGED <<code, pos, tokens, given, phase, storeVars>>

action_filter ==
    /\ out' = IF ~out.showing_code THEN [out EXCEPT !.filtering = TRUE] ELSE out
    /\ UNCHANGED <<code, pos, tokens, given, phase, storeVars>>

action_clear ==
    /\ out' = IF ~out.showing_code /\ ~out.filtering
              THEN [out EXCEPT !.filter_text = <<>>,
                               !.filtered_scripts = out.all_scripts,
                               !.selected_index = 0]
              ELSE out
    /\ UNCHANGED <<code, pos, tokens, given, phase, storeVars>>

\* action_select with the text value in the filter input
Select(app, value) ==
    IF app.filtering
    THEN [app EXCEPT !.filter_text = value,
                     !.filtering = FALSE,
                     !.filtered_scripts = IF value # <<>>
                                          THEN filter_scripts(app.all_scripts, value)
                                          ELSE app.all_scripts,
                     !.selected_index = 0]
    ELSE IF ~app.showing_code /\ app.filtered_scripts # <<>>
    THEN [app EXCEPT !.showing_code = TRUE,
                     !.viewer = <<app.filtered_scripts[app.selected_index + 1]>>]
    ELSE app

action_select ==
    /\ \E value \in FilterInputs : out' = Select(out, value)
    /\ UNCHANGED <<code, pos, tokens, given, phase, storeVars>>

action_back ==
    /\ out' = IF out.filtering THEN [out EXCEPT !.filtering = FALSE]
              ELSE IF out.showing_code
              THEN [out EXCEPT !.showing_code = FALSE, !.viewer = <<>>]
              ELSE out
    /\ UNCHANGED <<code, pos, tokens, given, phase, storeVars>>

on_input_submitted ==
    /\ \E value \in FilterInputs :
            out' = IF out.filtering THEN Select(out, value) ELSE out
    /\ UNCHANGED <<code, pos, tokens, given, phase, storeVars>>

NextApp ==
    \/ action_up
    \/ action_down
    \/ action_page_up
    \/ action_page_down
    \/ action_filter
    \/ action_clear
    \/ action_select
    \/ action_back
    \/ on_input_submitted

SpecApp == InitApp /\ [][NextApp]_vars

\* C30: after any sequence of the key actions, selected_index is an index of
\* filtered_scripts when the list is not empty and 0 when it is, and the
\* script the code view shows is the one at selected_index.
C30_SelectionInRange ==
    /\ out.filtered_scripts # <<>>
            => out.selected_index \in 0..(Len(out.filtered_scripts) - 1)
    /\ out.filtered_scripts = <<>> => out.selected_index = 0
    /\ out.showing_code
            => out.viewer = <<out.filtered_scripts[out.selected_index + 1]>>

\* a filter has left fewer scripts, the keys have moved to the last of them
\* and action_select has opened it
C30_Witness ==
    /\ out.showing_code
    /\ out.filter_text # <<>>
    /\ Len(out.filtered_scripts) < Len(out.all_scripts)
    /\ out.selected_index = Len(out.filtered_scripts) - 1
    /\ out.selected_index > 0

==============================================================================
